---- MODULE Spec2Model ----
(***************************************************************************)
(* Model of the operator scripts of my-oci-scripts.                        *)
(*                                                                         *)
(* Part 1: the tag scheduler                                               *)
(*   src/tags/OCI_vm_db_systems_stop_start_tagged_INST_PRCPLE.py           *)
(* Part 2: the objects listing                                             *)
(*   src/OCI_objects_list_in_compartment.py                                *)
(* Part 3: the tagged-instances listing                                    *)
(*   src/OCI_instances_list_tagged.py                                      *)
(* Part 4: the Cloud Guard responder recipes listing                       *)
(*   src/oci_security/OCI_cloud_guard_list_reponder_recipes.py             *)
(* Part 5: the ExaCC HTML report                                           *)
(*   src/oci_database/OCI_exacc_vm_clusters_list_HTML_no_SDK.py            *)
(*                                                                         *)
(* The cloud tenancy (compartments, subscribed regions, DB systems, the    *)
(* UTC clock) is the environment: it is drawn from bounded sets.           *)
(***************************************************************************)
EXTENDS Integers, Sequences, FiniteSets, TLC

\* ------------------------------------------------------------- bounds
MaxArgs    == 3     \* command-line arguments after the program name
MaxCpt     == 3     \* compartments returned by list_compartments
MaxRegions == 2     \* subscribed regions
MaxDbs     == 2     \* DB systems returned by one list_db_systems call
MaxNodes   == 2     \* DB nodes returned by one list_db_nodes call
MaxInst    == 2     \* compute instances returned by one list_instances call
MaxRecipes == 2     \* responder recipes of one listing or search
MaxPage    == 1     \* items the service puts in one page of a listing
MaxNodePage == 2    \* DB nodes the service puts in one page of list_db_nodes
MaxRollovers == 1   \* times the hour of the wall clock changes during one run
MaxItems   == 2     \* resources of one kind in one region

\* ------------------------------------------------------------- constants
tag_ns        == "osc"
tag_key_stop  == "automatic_shutdown"
tag_key_start == "automatic_startup"

HoursPerDay == 24

\* strftime("%H") + ":00_UTC": the two-digit hour, zero padded
Bucket(h) == (IF h < 10 THEN "0" ELSE "") \o ToString(h) \o ":00_UTC"

\* the hour that a bucket string names
HourOf(bucket) == CHOOSE h \in 0..(HoursPerDay - 1) : Bucket(h) = bucket

\* mutant: the comparisons read the clock again
ComparedTime_Reread(read_at_start, clock) == Bucket(clock)

\* process_compartment compares the tag values with the global
\* current_utc_time, assigned once in main
ComparedTime(read_at_start, clock) == read_at_start

Range(q) == {q[i] : i \in 1..Len(q)}

\* ------------------------------------------------------------- environment
ArgWords == {"-a", "--confirm_stop", "--confirm_start", "-h"}

\* every command line of up to MaxArgs words, and one with a word more
ArgvSet ==
    UNION {[1..n -> ArgWords] : n \in 0..MaxArgs}
    \cup {[i \in 1..(MaxArgs + 1) |-> IF i = 1 THEN "-a" ELSE "--confirm_stop"]}

RegionName(i) == "region-" \o ToString(i)

CptStates == {"ACTIVE", "DELETED"}

\* The flat answer of list_compartments(root, compartment_id_in_subtree=True):
\* compartment i has id i; the tenancy root is 0. Compartment 1 is a child of
\* the root and every further compartment a child of the one listed before
\* it or of the root (parent[i]).
CompartmentList(parent, state) ==
    [i \in 1..MaxCpt |->
        [id |-> i, compartment_id |-> parent[i], lifecycle_state |-> state[i]]]

\* the scheduler never reads compartment_id: one shape, a chain below 1 whose
\* last compartment hangs off the root instead when there are three or more
SchedulerParents == [i \in 1..MaxCpt |-> IF i > 2 /\ i = MaxCpt THEN 0 ELSE i - 1]

CompartmentLists ==
    {CompartmentList(SchedulerParents, s) : s \in [1..MaxCpt -> CptStates]}

NodeStates == {"STOPPED", "AVAILABLE", "STOPPING"}

NodeLists == UNION {[1..n -> NodeStates] : n \in 0..MaxNodes}

TagMaps(values) == UNION {[K -> values] : K \in SUBSET {tag_key_stop, tag_key_start}}

\* defined_tags of a DB system: the namespace is missing, or it holds any
\* subset of the two keys
DefinedTags(values) == {<<>>} \cup {[osc |-> m] : m \in TagMaps(values)}

DbSystems(values, states) ==
    {[lifecycle_state |-> l, defined_tags |-> t, nodes |-> n] :
        l \in states, t \in DefinedTags(values), n \in NodeLists}

\* The DB systems a list_db_systems call of tenancy t can return: tags set
\* to the buckets of t.tag_hours, lifecycle states t.dbs_states. A tidy
\* tenancy tags its DB systems with both keys or not at all and has at most
\* one node per DB system.
Population(t) ==
    {d \in DbSystems({Bucket(h) : h \in t.tag_hours}, t.dbs_states) :
        t.tidy => /\ Len(d.nodes) <= 1
                  /\ \/ d.defined_tags = << >>
                     \/ DOMAIN d.defined_tags[tag_ns] = {tag_key_stop, tag_key_start}}

VARIABLES
    tenancy,           \* environment: what the cloud and the clock will answer
    argv,              \* sys.argv[1:]
    all_regions, confirm_stop, confirm_start,
    current_utc_time,  \* the bucket string, "" before it is computed
    compartments,      \* response.data of list_compartments
    regions,           \* response.data of list_region_subscriptions
    signer_region,     \* signer.region, "" before the signer exists
    DatabaseClient,    \* region of the endpoint of the client, "" if not built
    pc,                \* position of the script
    exit_code,         \* exit status, -1 while running
    error,             \* "" or what ended the script early
    ri, ci, di,        \* loop indexes: region, compartment, DB system
    ndbs,              \* len(response.data) of the current list_db_systems
    dbs,               \* the DB system of the last loop iteration
    calls,             \* API calls of the last step
    out,               \* messages printed by the last step
    listed,            \* every list_db_systems call so far: <<endpoint, cpt id>>
    clients,           \* every DatabaseClient built so far: its region
    rr_pc,             \* two runs over one DB system: "off", "first", "working",
                       \* "second", "done"
    rr_argv,           \* sys.argv[1:] of both runs
    rr_clock,          \* environment: the hour (UTC) of the clock
    rr_dbs,            \* environment: the DB system as the service holds it
    rr_runs            \* per finished run: its bucket and the actions it sent

\* the objects listing (OCI_objects_list_in_compartment.py)
VARIABLES
    ol_tenancy,        \* environment: config file, compartment tree, regions
    ol_argv,           \* sys.argv[1:]
    ol_all_regions, include_sub_cpt,
    ol_config_region,  \* config["region"], "" before the profile is loaded
    ol_compartments,   \* response.data of list_compartments (whole subtree)
    ol_regions,        \* response.data of list_region_subscriptions
    initial_cpt_ocid,  \* "" until the compartment argument is found
    ol_pc,             \* position of the script
    ol_exit_code,      \* exit status, -1 while running
    ol_error,          \* "" or what ended the script early
    ol_ri,             \* index of the next region of the sweep
    ol_stack,          \* the calls of the two recursive functions, top first
    ol_visits,         \* every BEGIN ... END block printed so far
    ol_IdentityClient, \* region of the configuration IdentityClient was built from
    ol_uses            \* every use of a client by a listing function so far

\* the tagged-instances listing (OCI_instances_list_tagged.py)
VARIABLES
    il_tenancy,        \* environment: config file, compartments, regions
    il_argv,           \* sys.argv[1:]
    il_all_regions,
    il_args,           \* profile, tag_ns, tag_key once they are assigned
    il_config_region,  \* config["region"], "" before the profile is loaded
    il_compartments,   \* response.data of list_compartments
    il_regions,        \* response.data of list_region_subscriptions
    il_ComputeClient,  \* region of the endpoint of the client, "" if not built
    il_pc,             \* position of the script
    il_exit_code,      \* exit status, -1 while running
    il_error,          \* "" or what ended the script early
    il_ci,             \* index of the next compartment
    il_instances,      \* response.data of the list_instances of the last step
    il_out,            \* lines printed by the last step
    il_listed          \* every list_instances call so far: <<endpoint, cpt id>>

il_vars == <<il_tenancy, il_argv, il_all_regions, il_args, il_config_region,
             il_compartments, il_regions, il_ComputeClient, il_pc, il_exit_code,
             il_error, il_ci, il_instances, il_out, il_listed>>

\* the responder recipes listing (OCI_cloud_guard_list_reponder_recipes.py)
VARIABLES
    rc_tenancy,        \* environment: config file, compartments
    rc_argv,           \* sys.argv[1:]
    rc_profile,        \* profile, "" before it is assigned
    rc_config,         \* TRUE once oci.config.from_file has returned
    rc_compartments,   \* response.data of list_compartments
    rc_pc,             \* position of the script
    rc_exit_code,      \* exit status, -1 while running
    rc_error,          \* "" or what ended the script early
    rc_calls,          \* API calls of the last step
    rc_out             \* recipes printed by the last step

rc_vars == <<rc_tenancy, rc_argv, rc_profile, rc_config, rc_compartments, rc_pc,
             rc_exit_code, rc_error, rc_calls, rc_out>>

\* the ExaCC HTML report (OCI_exacc_vm_clusters_list_HTML_no_SDK.py)
VARIABLES
    rp_tenancy,        \* environment: config file, os.environ, regions, resources
    rp_args,           \* args of argparse: profile, email, all_regions, ...
    rp_email_read,     \* the EMAIL_* variables looked up in os.environ so far
    rp_config,         \* TRUE once from_file2 has returned
    current_region,    \* "" before set_region_and_endpoints is called
    endpoints,         \* service -> region of its endpoint
    rp_regions,        \* regionName of the answer of get_subscribed_regions
    home_region,       \* "" before it is found
    rp_compartments,   \* the answer of get_all_compartments
    rp_pc,             \* position of the script
    rp_exit_code,      \* exit status, -1 while running
    rp_error,          \* "" or what ended the script early
    rp_ri,             \* index of the next region of the current region loop
    rp_lists,          \* exadatainfrastructures, vmclusters, db_homes, ...
    rp_calls,          \* API calls of the last step
    rp_searches,       \* every search_resources call so far: <<kind, region>>
    rp_out,            \* where the HTML report went so far
    cf_pc,             \* loading a profile on its own: "off", "start", "loaded",
                       \* "exited"
    cf_lines,          \* environment: the lines of the config file
    cf_profile,        \* the profile asked for
    cf_config,         \* the result of from_file2, EmptyConfig before
    cf_exit_code       \* exit status, -1 while running

cf_vars == <<cf_pc, cf_lines, cf_profile, cf_config, cf_exit_code>>

rp_vars == <<rp_tenancy, rp_args, rp_email_read, rp_config, current_region,
             endpoints, rp_regions, home_region, rp_compartments, rp_pc,
             rp_exit_code, rp_error, rp_ri, rp_lists, rp_calls, rp_searches, rp_out,
             cf_vars>>

ol_vars == <<ol_tenancy, ol_argv, ol_all_regions, include_sub_cpt, ol_config_region,
             ol_compartments, ol_regions, initial_cpt_ocid, ol_pc, ol_exit_code,
             ol_error, ol_ri, ol_stack, ol_visits, ol_IdentityClient, ol_uses>>

rr_vars == <<rr_pc, rr_argv, rr_clock, rr_dbs, rr_runs>>

sched_vars == <<tenancy, argv, all_regions, confirm_stop, confirm_start,
                current_utc_time, compartments, regions, signer_region,
                DatabaseClient, pc, exit_code, error, ri, ci, di, ndbs, dbs, calls,
                out, listed, clients, rr_vars>>

\* the variables of the scripts written after the first two
rest_vars == <<il_vars, rc_vars, rp_vars>>

vars == <<sched_vars, ol_vars, rest_vars>>

NoDbs == [id |-> <<>>, lifecycle_state |-> "", defined_tags |-> <<>>, nodes |-> <<>>]

\* ------------------------------------------------------------- argument parsing
NoFlags == [all_regions |-> FALSE, confirm_stop |-> FALSE, confirm_start |-> FALSE,
            usage |-> FALSE]

\* sys.argv[1]: -a, --confirm_stop or --confirm_start, anything else is usage()
FirstArg(f, a) ==
    IF f.usage THEN f
    ELSE IF a = "-a" THEN [f EXCEPT !.all_regions = TRUE]
    ELSE IF a = "--confirm_stop" THEN [f EXCEPT !.confirm_stop = TRUE]
    ELSE IF a = "--confirm_start" THEN [f EXCEPT !.confirm_start = TRUE]
    ELSE [f EXCEPT !.usage = TRUE]

\* mutant: -a is taken in every position
OtherArg_AnyPosition(f, a) == FirstArg(f, a)

\* sys.argv[2], sys.argv[3]: --confirm_stop or --confirm_start, anything else
\* is usage(); usage() exits, so nothing after it is evaluated
OtherArg(f, a) ==
    IF f.usage THEN f
    ELSE IF a = "--confirm_stop" THEN [f EXCEPT !.confirm_stop = TRUE]
    ELSE IF a = "--confirm_start" THEN [f EXCEPT !.confirm_start = TRUE]
    ELSE [f EXCEPT !.usage = TRUE]

ParseArgs(av) ==
    IF Len(av) = 0 THEN NoFlags
    ELSE IF Len(av) = 1 THEN FirstArg(NoFlags, av[1])
    ELSE IF Len(av) = 2 THEN OtherArg(FirstArg(NoFlags, av[1]), av[2])
    ELSE IF Len(av) = 3 THEN OtherArg(OtherArg(FirstArg(NoFlags, av[1]), av[2]), av[3])
    ELSE [NoFlags EXCEPT !.usage = TRUE]

\* ------------------------------------------------------------- paging
\* The service answers a listing page by page: MaxPage items per page, the
\* last page shorter; a listing of nothing is one empty page.
PagesOf(all, size) ==
    LET n == IF all = << >> THEN 1 ELSE (Len(all) + size - 1) \div size
    IN  [k \in 1..n |->
            SubSeq(all, (k - 1) * size + 1,
                   IF k * size < Len(all) THEN k * size ELSE Len(all))]

Pages(all) == PagesOf(all, MaxPage)

\* a listing called once returns the first page only
FirstPage(all) == Pages(all)[1]

\* DatabaseClient.list_db_nodes called once: the first page of the nodes
list_db_nodes(nodes) == PagesOf(nodes, MaxNodePage)[1]

\* mutant: the last node of the answer is taken
NodeIndex_Last(data) == Len(data)

\* dbnode = response.data[0]: the position, from 1, of the node that the
\* scheduler reads and acts on
NodeIndex(data) == 1

RECURSIVE Concat(_)
Concat(pages) == IF pages = << >> THEN << >> ELSE Head(pages) \o Concat(Tail(pages))

\* oci.pagination.list_call_get_all_results: calls again while the answer
\* names a next page and returns the items of every page, in order
list_call_get_all_results(all) == Concat(Pages(all))

\* ------------------------------------------------------------- process_compartment
\* mutant: the lookups without the try / except
TagValues_Unhandled(d) ==
    IF /\ tag_ns \in DOMAIN d.defined_tags
       /\ tag_key_stop \in DOMAIN d.defined_tags[tag_ns]
       /\ tag_key_start \in DOMAIN d.defined_tags[tag_ns]
    THEN [raised |-> FALSE,
          stop   |-> d.defined_tags[tag_ns][tag_key_stop],
          start  |-> d.defined_tags[tag_ns][tag_key_start]]
    ELSE [raised |-> TRUE, stop |-> "none", start |-> "none"]

\* try: the two lookups; except: both values become "none"
TagValues(d) ==
    IF /\ tag_ns \in DOMAIN d.defined_tags
       /\ tag_key_stop \in DOMAIN d.defined_tags[tag_ns]
       /\ tag_key_start \in DOMAIN d.defined_tags[tag_ns]
    THEN [raised |-> FALSE,
          stop   |-> d.defined_tags[tag_ns][tag_key_stop],
          start  |-> d.defined_tags[tag_ns][tag_key_start]]
    ELSE [raised |-> FALSE, stop |-> "none", start |-> "none"]

\* mutant: the start branch does not test the state of the node
Branches_AnyState(node_state, tv, now) ==
    IF tv.start = now THEN <<"start">>
    ELSE IF node_state = "AVAILABLE" /\ tv.stop = now THEN <<"stop">>
    ELSE << >>

\* mutant: two independent tests, the second one on the tag alone
Branches_Independent(node_state, tv, now) ==
    (IF node_state = "STOPPED" /\ tv.start = now THEN <<"start">> ELSE << >>)
    \o (IF tv.stop = now THEN <<"stop">> ELSE << >>)

\* the branches of the if / elif chain that run for a DB node
Branches(node_state, tv, now) ==
    IF node_state = "STOPPED" /\ tv.start = now THEN <<"start">>
    ELSE IF node_state = "AVAILABLE" /\ tv.stop = now THEN <<"stop">>
    ELSE << >>

\* the test that guards the body of the loop over the DB systems
NotTerminated(d) == d.lifecycle_state # "TERMINED"

\* mutant: deleted compartments are processed like the others
Skipped_Never(lcpt) == FALSE

\* the test that makes process_compartment return at once
Skipped(lcpt) == lcpt.lifecycle_state = "DELETED"

Call(op, cpt, dbsid, node, action) ==
    [op |-> op, endpoint |-> DatabaseClient, compartment_id |-> cpt,
     db_system_id |-> dbsid, db_node_id |-> node, action |-> action]

\* an API call that the service answers with an error
Failed(c) == c @@ [failed |-> TRUE]

IsFailed(c) == "failed" \in DOMAIN c

\* mutant: the error of a call is swallowed and the script goes on
Raises_Swallowed(failing, op) == FALSE

\* the SDK raises ServiceError out of the failing call; no call of the
\* script is inside a try, so the exception ends the process
Raises(failing, op) == failing = op

\* mutant: the action is issued without looking at the flag
Confirmed_Always(b) == TRUE

\* mutant: either flag enables both actions
Confirmed_Either(b) == confirm_start \/ confirm_stop

\* "if confirm_start:" in the start branch, "if confirm_stop:" in the stop branch
Confirmed(b) == IF b = "start" THEN confirm_start ELSE confirm_stop

\* mutant: the client keeps the endpoint of the region of the instance
ClientRegion_Home(signer_region_now) == tenancy.region

\* oci.database.DatabaseClient(config={}, signer=signer): the endpoint is the
\* one of the region the signer holds when the client is built
ClientRegion(signer_region_now) == signer_region_now

Message(b) ==
    IF b = "start"
    THEN (IF confirm_start THEN "STARTING" ELSE "SHOULD BE STARTED")
    ELSE (IF confirm_stop THEN "STOPPING" ELSE "SHOULD BE STOPPED")

\* ------------------------------------------------------------- the script
\* parse arguments, compute the bucket, authenticate, list the compartments
\* and the subscribed regions
Startup ==
    /\ pc = "start"
    /\ LET f == ParseArgs(argv) IN
        /\ all_regions' = f.all_regions
        /\ confirm_stop' = f.confirm_stop
        /\ confirm_start' = f.confirm_start
        /\ IF f.usage
           THEN /\ pc' = "exited"
                /\ exit_code' = 1
                /\ error' = "usage"
                /\ UNCHANGED <<current_utc_time, signer_region, compartments, regions>>
           ELSE \E failing \in {"none", "list_compartments", "list_region_subscriptions"} :
                /\ current_utc_time' = Bucket(tenancy.clock)
                /\ signer_region' = tenancy.region
                /\ IF Raises(failing, "list_compartments")
                   THEN /\ pc' = "exited" /\ exit_code' = 1 /\ error' = "ServiceError"
                        /\ UNCHANGED <<compartments, regions>>
                   ELSE IF Raises(failing, "list_region_subscriptions")
                   THEN /\ pc' = "exited" /\ exit_code' = 1 /\ error' = "ServiceError"
                        /\ compartments' = list_call_get_all_results(tenancy.compartments)
                        /\ UNCHANGED regions
                   ELSE /\ compartments' = list_call_get_all_results(tenancy.compartments)
                        /\ regions' = list_call_get_all_results(tenancy.regions)
                        /\ pc' = IF f.all_regions THEN "region" ELSE "single"
                        /\ UNCHANGED <<exit_code, error>>
    /\ UNCHANGED <<ol_vars, rest_vars, rr_vars>>
    /\ UNCHANGED <<tenancy, argv, DatabaseClient, ri, ci, di, ndbs, dbs, calls, out,
                   listed, clients>>

\* not(all_regions): one client, in the signer's region
SingleRegion ==
    /\ pc = "single"
    /\ DatabaseClient' = ClientRegion(signer_region)
    /\ clients' = Append(clients, ClientRegion(signer_region))
    /\ ci' = 1
    /\ pc' = "compartment"
    /\ dbs' = NoDbs /\ calls' = << >> /\ out' = << >>
    /\ UNCHANGED <<ol_vars, rest_vars, rr_vars>>
    /\ UNCHANGED <<tenancy, argv, all_regions, confirm_stop, confirm_start,
                   current_utc_time, compartments, regions, signer_region, exit_code,
                   error, ri, di, ndbs, listed>>

\* for region in regions: signer.region = region.region_name, new client
NextRegion ==
    /\ pc = "region"
    /\ IF ri <= Len(regions)
       THEN /\ signer_region' = regions[ri]
            /\ DatabaseClient' = ClientRegion(regions[ri])
            /\ clients' = Append(clients, ClientRegion(regions[ri]))
            /\ ci' = 1
            /\ pc' = "compartment"
       ELSE /\ pc' = "end"
            /\ UNCHANGED <<signer_region, DatabaseClient, clients, ci>>
    /\ dbs' = NoDbs /\ calls' = << >> /\ out' = << >>
    /\ UNCHANGED <<ol_vars, rest_vars, rr_vars>>
    /\ UNCHANGED <<tenancy, argv, all_regions, confirm_stop, confirm_start,
                   current_utc_time, compartments, regions, exit_code, error, ri, di,
                   ndbs, listed>>

\* for cpt in compartments: process_compartment(cpt), up to the loop over the
\* DB systems; after the last compartment, the next region or the end
NextCompartment ==
    /\ pc = "compartment"
    /\ dbs' = NoDbs /\ out' = << >>
    /\ IF ci > Len(compartments)
       THEN /\ pc' = IF all_regions THEN "region" ELSE "end"
            /\ ri' = IF all_regions THEN ri + 1 ELSE ri
            /\ calls' = << >>
            /\ UNCHANGED <<ci, di, ndbs, listed>>
       ELSE IF Skipped(compartments[ci])
       THEN /\ ci' = ci + 1
            /\ calls' = << >>
            /\ pc' = "compartment"
            /\ UNCHANGED <<ri, di, ndbs, listed>>
       ELSE \E n \in 0..MaxDbs, failing \in {"none", "list_db_systems"} :
            LET listing == Call("list_db_systems", compartments[ci].id, << >>, << >>, "")
            IN
            /\ listed' = Append(listed, <<DatabaseClient, compartments[ci].id>>)
            /\ IF failing = "list_db_systems"
               THEN /\ calls' = <<Failed(listing)>>
                    /\ ndbs' = 0
               ELSE /\ calls' = <<listing>>
                    /\ ndbs' = n
            /\ di' = 1
            /\ pc' = IF Raises(failing, "list_db_systems") THEN "exited" ELSE "db_systems"
            /\ UNCHANGED <<ci, ri>>
    /\ exit_code' = IF pc' = "exited" THEN 1 ELSE exit_code
    /\ error' = IF pc' = "exited" THEN "ServiceError" ELSE error
    /\ UNCHANGED <<ol_vars, rest_vars, rr_vars>>
    /\ UNCHANGED <<tenancy, argv, all_regions, confirm_stop, confirm_start,
                   current_utc_time, compartments, regions, signer_region,
                   DatabaseClient, clients>>

\* head of "for dbs in response.data": the next DB system, or the return
\* of process_compartment
NextDbSystem ==
    /\ pc = "db_systems"
    /\ dbs' = NoDbs /\ calls' = << >> /\ out' = << >>
    /\ IF di <= ndbs
       THEN pc' = "db_system" /\ UNCHANGED ci
       ELSE pc' = "compartment" /\ ci' = ci + 1
    /\ UNCHANGED <<ol_vars, rest_vars, rr_vars>>
    /\ UNCHANGED <<tenancy, argv, all_regions, confirm_stop, confirm_start,
                   current_utc_time, compartments, regions, signer_region,
                   DatabaseClient, exit_code, error, ri, di, ndbs, listed, clients>>

\* one iteration of "for dbs in response.data"; list_db_nodes is called
\* once, its answer is the first page of the nodes
ProcessDbSystem ==
    /\ pc = "db_system"
    /\ \E d \in Population(tenancy), failing \in {"none", "list_db_nodes", "db_node_action"} :
        LET cpt    == compartments[ci].id
            dbsid  == <<DatabaseClient, cpt, di>>
            tv     == TagValues(d)
            data   == list_db_nodes(d.nodes)
            request == Call("list_db_nodes", cpt, dbsid, << >>, "")
            listing == request @@ [data |-> data]
            dbnode == <<dbsid, NodeIndex(data)>>
            br     == IF data = << >> THEN << >>
                      ELSE Branches(data[NodeIndex(data)], tv,
                                    ComparedTime(current_utc_time, tenancy.clock))
            go     == SelectSeq(br, Confirmed)
            action(b) == Call("db_node_action", cpt, dbsid, dbnode,
                              IF b = "start" THEN "START" ELSE "STOP")
            acts   == [i \in 1..Len(go) |->
                         IF failing = "db_node_action" THEN Failed(action(go[i]))
                         ELSE action(go[i])]
            abort  == \/ Raises(failing, "list_db_nodes")
                      \/ Raises(failing, "db_node_action") /\ go # << >>
        IN
        /\ dbs' = [id |-> dbsid, lifecycle_state |-> d.lifecycle_state,
                   defined_tags |-> d.defined_tags, nodes |-> d.nodes]
        /\ IF ~NotTerminated(d)
           THEN /\ calls' = << >> /\ out' = << >>
                /\ UNCHANGED <<exit_code, error>>
                /\ pc' = "db_systems"
           ELSE IF tv.raised
           THEN /\ calls' = << >> /\ out' = << >>
                /\ pc' = "exited" /\ exit_code' = 1 /\ error' = "KeyError"
           ELSE IF failing = "list_db_nodes"
           THEN /\ calls' = <<Failed(request)>> /\ out' = << >>
                /\ IF abort
                   THEN pc' = "exited" /\ exit_code' = 1 /\ error' = "ServiceError"
                   ELSE pc' = "db_systems" /\ UNCHANGED <<exit_code, error>>
           ELSE IF data = << >>
           THEN /\ calls' = <<listing>> /\ out' = << >>
                /\ pc' = "exited" /\ exit_code' = 1 /\ error' = "IndexError"
           ELSE /\ calls' = <<listing>> \o acts
                /\ out' = [i \in 1..Len(br) |->
                             [msg |-> Message(br[i]), region |-> signer_region,
                              cpt |-> cpt, dbs |-> dbsid]]
                /\ IF abort
                   THEN pc' = "exited" /\ exit_code' = 1 /\ error' = "ServiceError"
                   ELSE pc' = "db_systems" /\ UNCHANGED <<exit_code, error>>
        /\ di' = di + 1
    /\ UNCHANGED <<ol_vars, rest_vars, rr_vars>>
    /\ UNCHANGED <<tenancy, argv, all_regions, confirm_stop, confirm_start,
                   current_utc_time, compartments, regions, signer_region,
                   DatabaseClient, ri, ci, ndbs, listed, clients>>

\* the environment: the hour of the wall clock changes while the script runs
HourRollover ==
    /\ pc \notin {"off", "start", "exited"}
    /\ (tenancy.clock - HourOf(current_utc_time)) % HoursPerDay < MaxRollovers
    /\ tenancy' = [tenancy EXCEPT !.clock = (@ + 1) % HoursPerDay]
    /\ UNCHANGED <<argv, all_regions, confirm_stop, confirm_start,
                   current_utc_time, compartments, regions, signer_region,
                   DatabaseClient, pc, exit_code, error, ri, ci, di, ndbs, dbs,
                   calls, out, listed, clients>>
    /\ UNCHANGED <<ol_vars, rest_vars, rr_vars>>

\* print END SCRIPT, exit (0)
EndScript ==
    /\ pc = "end"
    /\ pc' = "exited"
    /\ exit_code' = 0
    /\ dbs' = NoDbs /\ calls' = << >> /\ out' = << >>
    /\ UNCHANGED <<ol_vars, rest_vars, rr_vars>>
    /\ UNCHANGED <<tenancy, argv, all_regions, confirm_stop, confirm_start,
                   current_utc_time, compartments, regions, signer_region,
                   DatabaseClient, error, ri, ci, di, ndbs, listed, clients>>

Next ==
    \/ Startup
    \/ SingleRegion
    \/ NextRegion
    \/ NextCompartment
    \/ NextDbSystem
    \/ ProcessDbSystem
    \/ EndScript

\* the scheduler, and the wall clock moving on while it runs
NextRollover ==
    \/ Next
    \/ HourRollover

\* ------------------------------------------------------------- objects listing
\* oci.config.from_file(configfile, profile) returns the profile when the
\* config file has it (TRUE) and raises otherwise (FALSE)
from_file(profiles, profile) == profile \in profiles

Ocid(i) == "ocid-" \o ToString(i)

CptName(i) == "cpt-" \o ToString(i)

OlCptStates == {"ACTIVE", "DELETING", "DELETED"}

\* The compartments of the tenancy of the objects listing, as
\* list_compartments(root, compartment_id_in_subtree=True) returns them:
\* compartment i is a child of the root Ocid(0) or of compartment i - 1.
OlCompartmentLists ==
    {[i \in 1..MaxCpt |->
        [id |-> Ocid(i), name |-> CptName(i), compartment_id |-> Ocid(p[i]),
         lifecycle_state |-> st[i]]] :
        p \in {q \in [1..MaxCpt -> 0..MaxCpt] :
                  \A i \in 1..MaxCpt : q[i] \in {0, i - 1}},
        st \in [1..MaxCpt -> OlCptStates]}

\* list_compartments(cpt_ocid): the direct children, whatever their state
SubCompartments(cpt_ocid) ==
    SelectSeq(ol_tenancy.compartments, LAMBDA c : c.compartment_id = cpt_ocid)

OlNoFlags == [all_regions |-> FALSE, include_sub_cpt |-> FALSE, usage |-> FALSE,
              profile |-> "", cpt |-> "", bound |-> FALSE]

\* -- parse arguments: 2, 3 or 4 arguments; with any other number nothing is
\* assigned and profile and cpt stay unbound
OlParseArgs(av) ==
    IF Len(av) = 2
    THEN [OlNoFlags EXCEPT !.profile = av[1], !.cpt = av[2], !.bound = TRUE]
    ELSE IF Len(av) = 3
    THEN LET f == [OlNoFlags EXCEPT !.profile = av[2], !.cpt = av[3], !.bound = TRUE]
         IN  IF av[1] = "-a" THEN [f EXCEPT !.all_regions = TRUE]
             ELSE IF av[1] = "-r" THEN [f EXCEPT !.include_sub_cpt = TRUE]
             ELSE [f EXCEPT !.usage = TRUE]
    ELSE IF Len(av) = 4
    THEN LET f == [OlNoFlags EXCEPT !.profile = av[3], !.cpt = av[4], !.bound = TRUE]
         IN  IF (av[1] = "-a" /\ av[2] = "-r") \/ (av[1] = "-r" /\ av[2] = "-a")
             THEN [f EXCEPT !.all_regions = TRUE, !.include_sub_cpt = TRUE]
             ELSE [f EXCEPT !.usage = TRUE]
    ELSE OlNoFlags

\* mutant: the argument is compared with the ids only
FindCompartment_ById(cpts, cpt) ==
    LET hits == {i \in 1..Len(cpts) : cpt = cpts[i].id}
    IN  IF hits = {} THEN ""
        ELSE cpts[CHOOSE i \in hits : \A j \in hits : j <= i].id

\* the loop over the compartments: the last one whose id or name is the
\* argument, "" when there is none
FindCompartment(cpts, cpt) ==
    LET hits == {i \in 1..Len(cpts) : cpt = cpts[i].id \/ cpt = cpts[i].name}
    IN  IF hits = {} THEN ""
        ELSE cpts[CHOOSE i \in hits : \A j \in hits : j <= i].id

Frame(fn, cpt_ocid) == [fn |-> fn, cpt |-> cpt_ocid, phase |-> "list", subs |-> << >>]

\* mutant: the recursion leaves out the DELETED sub-compartments only
Recursed_NotDeleted(sub_compartment) == sub_compartment.lifecycle_state # "DELETED"

\* the test on a sub-compartment before the recursive call
Recursed(sub_compartment) == sub_compartment.lifecycle_state = "ACTIVE"

\* parse arguments, load the profile, find the compartment, list the regions,
\* then call list_objects_common_to_all_regions on the compartment
OlStartup ==
    /\ ol_pc = "start"
    /\ LET f == OlParseArgs(ol_argv)
           found == FindCompartment(ol_tenancy.compartments, f.cpt)
       IN
        /\ ol_all_regions' = f.all_regions
        /\ include_sub_cpt' = f.include_sub_cpt
        /\ IF f.usage
           THEN /\ ol_pc' = "exited" /\ ol_exit_code' = 1 /\ ol_error' = "usage"
                /\ UNCHANGED <<ol_config_region, ol_compartments, ol_regions,
                               initial_cpt_ocid, ol_stack, ol_IdentityClient>>
           ELSE IF ~f.bound
           THEN \* NameError in the try, and again in the except clause
                /\ ol_pc' = "exited" /\ ol_exit_code' = 1 /\ ol_error' = "NameError"
                /\ UNCHANGED <<ol_config_region, ol_compartments, ol_regions,
                               initial_cpt_ocid, ol_stack, ol_IdentityClient>>
           ELSE IF ~from_file(ol_tenancy.profiles, f.profile)
           THEN /\ ol_pc' = "exited" /\ ol_exit_code' = 2 /\ ol_error' = "profile"
                /\ UNCHANGED <<ol_config_region, ol_compartments, ol_regions,
                               initial_cpt_ocid, ol_stack, ol_IdentityClient>>
           ELSE IF found = ""
           THEN /\ ol_pc' = "exited" /\ ol_exit_code' = 3 /\ ol_error' = "compartment"
                /\ ol_config_region' = ol_tenancy.region
                /\ ol_IdentityClient' = ol_tenancy.region
                /\ ol_compartments' = ol_tenancy.compartments
                /\ UNCHANGED <<ol_regions, initial_cpt_ocid, ol_stack>>
           ELSE /\ ol_config_region' = ol_tenancy.region
                /\ ol_IdentityClient' = ol_tenancy.region
                /\ ol_compartments' = ol_tenancy.compartments
                /\ ol_regions' = ol_tenancy.regions
                /\ initial_cpt_ocid' = found
                /\ ol_stack' = <<Frame("common", found)>>
                /\ ol_pc' = "common"
                /\ UNCHANGED <<ol_exit_code, ol_error>>
    /\ UNCHANGED <<ol_tenancy, ol_argv, ol_ri, ol_visits, ol_uses>>
    /\ UNCHANGED <<sched_vars, rest_vars>>

\* one use of a client: the region of the configuration it was built from,
\* and the function, region and compartment of the listing that uses it
Use(client, built, fn, cpt_ocid) ==
    [client |-> client, built |-> built, fn |-> fn, region |-> ol_config_region,
     cpt |-> cpt_ocid]

\* the clients a listing function uses. DnsClient and ComputeClient are
\* built from config inside the function (the other eight service clients
\* of list_region_specific_objects are built the same way, a few lines
\* further down); IdentityClient is the global built once in main: it lists
\* the policies and tag namespaces, and the sub-compartments if -r was given
ClientUses(fn, cpt_ocid) ==
    IF fn = "common"
    THEN <<Use("DnsClient", ol_config_region, fn, cpt_ocid),
           Use("IdentityClient", ol_IdentityClient, fn, cpt_ocid)>>
    ELSE <<Use("ComputeClient", ol_config_region, fn, cpt_ocid)>>
         \o (IF include_sub_cpt
             THEN <<Use("IdentityClient", ol_IdentityClient, fn, cpt_ocid)>>
             ELSE << >>)

\* the body of a listing function up to its END line, then the listing of
\* the sub-compartments if -r was given
ListObjects(fn) ==
    /\ ol_stack # << >>
    /\ Head(ol_stack).fn = fn /\ Head(ol_stack).phase = "list"
    /\ ol_visits' = Append(ol_visits, [fn |-> fn, region |-> ol_config_region,
                                       cpt |-> Head(ol_stack).cpt])
    /\ ol_uses' = ol_uses \o ClientUses(fn, Head(ol_stack).cpt)
    /\ IF include_sub_cpt
       THEN ol_stack' = <<[Head(ol_stack) EXCEPT
                              !.phase = "subs",
                              !.subs = SubCompartments(Head(ol_stack).cpt)]>>
                        \o Tail(ol_stack)
       ELSE ol_stack' = Tail(ol_stack)
    /\ UNCHANGED <<ol_tenancy, ol_argv, ol_all_regions, include_sub_cpt,
                   ol_config_region, ol_compartments, ol_regions, initial_cpt_ocid,
                   ol_pc, ol_exit_code, ol_error, ol_ri, ol_IdentityClient>>
    /\ UNCHANGED <<sched_vars, rest_vars>>

\* one iteration of "for sub_compartment in sub_compartments", or the return
RecurseInto(fn) ==
    /\ ol_stack # << >>
    /\ Head(ol_stack).fn = fn /\ Head(ol_stack).phase = "subs"
    /\ LET top == Head(ol_stack) IN
       IF top.subs = << >>
       THEN ol_stack' = Tail(ol_stack)
       ELSE LET rest == <<[top EXCEPT !.subs = Tail(top.subs)]>> \o Tail(ol_stack)
            IN  IF Recursed(Head(top.subs))
                THEN ol_stack' = <<Frame(fn, Head(top.subs).id)>> \o rest
                ELSE ol_stack' = rest
    /\ UNCHANGED <<ol_tenancy, ol_argv, ol_all_regions, include_sub_cpt,
                   ol_config_region, ol_compartments, ol_regions, initial_cpt_ocid,
                   ol_pc, ol_exit_code, ol_error, ol_ri, ol_visits,
                   ol_IdentityClient, ol_uses>>
    /\ UNCHANGED <<sched_vars, rest_vars>>

list_objects_common_to_all_regions == ListObjects("common")

CommonSubCompartments == RecurseInto("common")

list_region_specific_objects == ListObjects("region")

RegionSubCompartments == RecurseInto("region")

\* after the common objects: one call in the region of the profile, or the
\* sweep over the subscribed regions
OlRegionSpecific ==
    /\ ol_pc = "common" /\ ol_stack = << >>
    /\ IF ~ol_all_regions
       THEN /\ ol_stack' = <<Frame("region", initial_cpt_ocid)>>
            /\ ol_pc' = "single"
            /\ UNCHANGED ol_ri
       ELSE /\ ol_pc' = "sweep"
            /\ ol_ri' = 1
            /\ UNCHANGED ol_stack
    /\ UNCHANGED <<ol_tenancy, ol_argv, ol_all_regions, include_sub_cpt,
                   ol_config_region, ol_compartments, ol_regions, initial_cpt_ocid,
                   ol_exit_code, ol_error, ol_visits, ol_IdentityClient, ol_uses>>
    /\ UNCHANGED <<sched_vars, rest_vars>>

\* mutant: config["region"] keeps the first region of the list
PassRegion_First(subscribed, k) == subscribed[1]

\* the region written to config["region"] by iteration ri of the sweep
PassRegion(subscribed, k) == subscribed[k]

\* for region in regions: config["region"] = region.region_name, then the call
OlNextRegion ==
    /\ ol_pc = "sweep" /\ ol_stack = << >> /\ ol_ri <= Len(ol_regions)
    /\ ol_config_region' = PassRegion(ol_regions, ol_ri)
    /\ ol_stack' = <<Frame("region", initial_cpt_ocid)>>
    /\ ol_ri' = ol_ri + 1
    /\ UNCHANGED <<ol_tenancy, ol_argv, ol_all_regions, include_sub_cpt,
                   ol_compartments, ol_regions, initial_cpt_ocid, ol_pc,
                   ol_exit_code, ol_error, ol_visits, ol_IdentityClient, ol_uses>>
    /\ UNCHANGED <<sched_vars, rest_vars>>

\* exit (0)
OlExit ==
    /\ ol_stack = << >>
    /\ IF ol_pc = "sweep" THEN ol_ri > Len(ol_regions) ELSE ol_pc = "single"
    /\ ol_pc' = "exited"
    /\ ol_exit_code' = 0
    /\ UNCHANGED <<ol_tenancy, ol_argv, ol_all_regions, include_sub_cpt,
                   ol_config_region, ol_compartments, ol_regions, initial_cpt_ocid,
                   ol_error, ol_ri, ol_stack, ol_visits, ol_IdentityClient, ol_uses>>
    /\ UNCHANGED <<sched_vars, rest_vars>>

NextObjects ==
    \/ OlStartup
    \/ list_objects_common_to_all_regions
    \/ CommonSubCompartments
    \/ OlRegionSpecific
    \/ OlNextRegion
    \/ list_region_specific_objects
    \/ RegionSubCompartments
    \/ OlExit

\* ------------------------------------------------------------- two runs
\* mutant: a run sends the actions whatever its command line
ConfirmedBy_Always(f, b) == TRUE

\* the test of the confirm flag of a branch, on the flags of a command line
ConfirmedBy(f, b) == IF b = "start" THEN f.confirm_start ELSE f.confirm_stop

\* a run of the scheduler as far as one DB system is concerned: the body of
\* the loop over the DB systems, with the bucket of the hour of the run
RerunPass ==
    /\ rr_pc \in {"first", "second"}
    /\ LET f    == ParseArgs(rr_argv)
           now  == Bucket(rr_clock)
           tv   == TagValues(rr_dbs)
           data == list_db_nodes(rr_dbs.nodes)
           br   == IF f.usage \/ ~NotTerminated(rr_dbs) \/ data = << >> THEN << >>
                   ELSE Branches(data[NodeIndex(data)], tv, now)
           go   == SelectSeq(br, LAMBDA b : ConfirmedBy(f, b))
       IN  rr_runs' = Append(rr_runs, [now |-> now, actions |-> go])
    /\ rr_pc' = IF rr_pc = "first" THEN "working" ELSE "done"
    /\ UNCHANGED <<rr_argv, rr_clock, rr_dbs>>
    /\ UNCHANGED <<tenancy, argv, all_regions, confirm_stop, confirm_start,
                   current_utc_time, compartments, regions, signer_region,
                   DatabaseClient, pc, exit_code, error, ri, ci, di, ndbs, dbs,
                   calls, out, listed, clients>>
    /\ UNCHANGED <<ol_vars, rest_vars>>

\* the service completes the action of the first run: a started node
\* becomes AVAILABLE, a stopped one STOPPED; the hour may pass meanwhile
ActionCompletes ==
    /\ rr_pc = "working"
    /\ LET sent == rr_runs[1].actions
           k    == NodeIndex(list_db_nodes(rr_dbs.nodes))
       IN  rr_dbs' = IF sent = << >> THEN rr_dbs
                     ELSE [rr_dbs EXCEPT !.nodes[k] =
                              IF sent[1] = "start" THEN "AVAILABLE" ELSE "STOPPED"]
    /\ \E passed \in {0, 1} : rr_clock' = (rr_clock + passed) % HoursPerDay
    /\ rr_pc' = "second"
    /\ UNCHANGED <<rr_argv, rr_runs>>
    /\ UNCHANGED <<tenancy, argv, all_regions, confirm_stop, confirm_start,
                   current_utc_time, compartments, regions, signer_region,
                   DatabaseClient, pc, exit_code, error, ri, ci, di, ndbs, dbs,
                   calls, out, listed, clients>>
    /\ UNCHANGED <<ol_vars, rest_vars>>

NextRerun ==
    \/ RerunPass
    \/ ActionCompletes

\* ------------------------------------------------------------- tagged instances
\* defined_tags of a compute instance: nothing, the namespace with another
\* key, or the namespace with the key "owner"
InstanceTags ==
    {<< >>, [osc |-> [project |-> "p1"]], [osc |-> [owner |-> "v1"]],
     [osc |-> [owner |-> "v2", project |-> "p1"]]}

InstanceLists == UNION {[1..n -> InstanceTags] : n \in 0..MaxInst}

IlNoArgs == [all_regions |-> FALSE, usage |-> FALSE,
             profile |-> "", tag_ns |-> "", tag_key |-> ""]

\* -- parse arguments: OCI_PROFILE tag_namespace tag_key, or -a before them;
\* usage() exits, so the assignments after it are not made
IlParseArgs(av) ==
    IF Len(av) = 3
    THEN [IlNoArgs EXCEPT !.profile = av[1], !.tag_ns = av[2], !.tag_key = av[3]]
    ELSE IF Len(av) = 4
    THEN IF av[1] = "-a"
         THEN [IlNoArgs EXCEPT !.all_regions = TRUE, !.profile = av[2],
                               !.tag_ns = av[3], !.tag_key = av[4]]
         ELSE [IlNoArgs EXCEPT !.usage = TRUE]
    ELSE [IlNoArgs EXCEPT !.usage = TRUE]

\* mutant: the lookup succeeds only if the key is alone in its namespace
IlTagged_OnlyKey(tags, ns, key) == ns \in DOMAIN tags /\ DOMAIN tags[ns] = {key}

\* instance.defined_tags[tag_ns][tag_key] inside try / except: pass
IlTagged(tags, ns, key) == ns \in DOMAIN tags /\ key \in DOMAIN tags[ns]

\* oci.core.ComputeClient(config): the endpoint of config["region"]; the list
\* of subscribed regions is fetched but never read
IlClientRegion(config_region, subscribed) == config_region

\* parse arguments, load the profile, list the regions and the compartments,
\* build the ComputeClient
IlStartup ==
    /\ il_pc = "start"
    /\ LET f == IlParseArgs(il_argv) IN
        /\ il_all_regions' = f.all_regions
        /\ IF f.usage
           THEN /\ il_pc' = "exited" /\ il_exit_code' = 1 /\ il_error' = "usage"
                /\ UNCHANGED <<il_args, il_config_region, il_compartments,
                               il_regions, il_ComputeClient>>
           ELSE IF ~from_file(il_tenancy.profiles, f.profile)
           THEN /\ il_pc' = "exited" /\ il_exit_code' = 2 /\ il_error' = "profile"
                /\ il_args' = [profile |-> f.profile, tag_ns |-> f.tag_ns,
                               tag_key |-> f.tag_key]
                /\ UNCHANGED <<il_config_region, il_compartments, il_regions,
                               il_ComputeClient>>
           ELSE /\ il_args' = [profile |-> f.profile, tag_ns |-> f.tag_ns,
                               tag_key |-> f.tag_key]
                /\ il_config_region' = il_tenancy.region
                /\ il_regions' = il_tenancy.regions
                /\ il_compartments' = il_tenancy.compartments
                /\ il_ComputeClient' = IlClientRegion(il_tenancy.region,
                                                      il_tenancy.regions)
                /\ il_pc' = "compartment"
                /\ UNCHANGED <<il_exit_code, il_error>>
    /\ UNCHANGED <<il_tenancy, il_argv, il_ci, il_instances, il_out, il_listed>>
    /\ UNCHANGED <<sched_vars, ol_vars, rc_vars, rp_vars>>

\* one iteration of "for cpt in compartments"
list_tagged_compute_instances_in_compartment ==
    /\ il_pc = "compartment" /\ il_ci <= Len(il_compartments)
    /\ LET lcpt == il_compartments[il_ci] IN
       IF lcpt.lifecycle_state = "DELETED"
       THEN /\ il_instances' = << >> /\ il_out' = << >>
            /\ UNCHANGED il_listed
       ELSE \E tags \in InstanceLists :
            LET data == [i \in 1..Len(tags) |->
                            [id |-> <<il_ComputeClient, lcpt.id, i>>,
                             defined_tags |-> tags[i]]]
                hits == SelectSeq(data, LAMBDA x :
                            IlTagged(x.defined_tags, il_args.tag_ns, il_args.tag_key))
            IN  /\ il_instances' = data
                /\ il_listed' = Append(il_listed, <<il_ComputeClient, lcpt.id>>)
                /\ il_out' = [i \in 1..Len(hits) |->
                                 [cpt |-> lcpt.id, instance |-> hits[i].id,
                                  tag_ns |-> il_args.tag_ns,
                                  tag_key |-> il_args.tag_key,
                                  tag_value |-> hits[i].defined_tags[il_args.tag_ns]
                                                                    [il_args.tag_key]]]
    /\ il_ci' = il_ci + 1
    /\ UNCHANGED <<il_tenancy, il_argv, il_all_regions, il_args, il_config_region,
                   il_compartments, il_regions, il_ComputeClient, il_pc,
                   il_exit_code, il_error>>
    /\ UNCHANGED <<sched_vars, ol_vars, rc_vars, rp_vars>>

\* exit (0)
IlExit ==
    /\ il_pc = "compartment" /\ il_ci > Len(il_compartments)
    /\ il_pc' = "exited"
    /\ il_exit_code' = 0
    /\ il_instances' = << >> /\ il_out' = << >>
    /\ UNCHANGED <<il_tenancy, il_argv, il_all_regions, il_args, il_config_region,
                   il_compartments, il_regions, il_ComputeClient, il_error, il_ci,
                   il_listed>>
    /\ UNCHANGED <<sched_vars, ol_vars, rc_vars, rp_vars>>

NextInstances ==
    \/ IlStartup
    \/ list_tagged_compute_instances_in_compartment
    \/ IlExit

\* ------------------------------------------------------------- responder recipes
RcRoot == Ocid(0)

\* list_compartments of the whole subtree: compartment i is a child of the
\* root or of compartment i - 1
RcCompartmentLists ==
    {[i \in 1..MaxCpt |->
        [id |-> Ocid(i), name |-> CptName(i), compartment_id |-> Ocid(p[i])]] :
        p \in {q \in [1..MaxCpt -> 0..MaxCpt] :
                  \A i \in 1..MaxCpt : q[i] \in {0, i - 1}}}

\* get_cpt_parent: the first compartment whose id is cpt.compartment_id; the
\* loop variable keeps the last compartment when the loop ends without break
get_cpt_parent(cpts, cpt) ==
    LET hits == {i \in 1..Len(cpts) : cpts[i].id = cpt.compartment_id}
    IN  IF hits = {} THEN cpts[Len(cpts)]
        ELSE cpts[CHOOSE i \in hits : \A j \in hits : i <= j]

\* cpt_full_name; depth counts the frames left before Python gives up
RECURSIVE cpt_full_name(_, _, _)
cpt_full_name(cpts, cpt, depth) ==
    IF cpt.id = RcRoot THEN ""
    ELSE IF cpt.compartment_id = RcRoot THEN cpt.name
    ELSE IF depth = 0 THEN "RecursionError"
    ELSE LET up == cpt_full_name(cpts, get_cpt_parent(cpts, cpt), depth - 1)
         IN  IF up = "RecursionError" THEN up ELSE up \o ":" \o cpt.name

\* get_cpt_full_name_from_id: "root", the full name of the first compartment
\* with that id, or None
get_cpt_full_name_from_id(cpts, cpt_id) ==
    IF cpt_id = RcRoot THEN "root"
    ELSE LET hits == {i \in 1..Len(cpts) : cpts[i].id = cpt_id}
         IN  IF hits = {} THEN "None"
             ELSE cpt_full_name(cpts, cpts[CHOOSE i \in hits : \A j \in hits : i <= j],
                                Len(cpts))

RcCall(client, op) == [client |-> client, op |-> op]

\* parse arguments, load the profile, list the compartments
RcStartup ==
    /\ rc_pc = "start"
    /\ IF Len(rc_argv) # 1
       THEN /\ rc_pc' = "exited" /\ rc_exit_code' = 1 /\ rc_error' = "usage"
            /\ rc_calls' = << >>
            /\ UNCHANGED <<rc_profile, rc_config, rc_compartments>>
       ELSE IF ~from_file(rc_tenancy.profiles, rc_argv[1])
       THEN /\ rc_pc' = "exited" /\ rc_exit_code' = 2 /\ rc_error' = "profile"
            /\ rc_profile' = rc_argv[1]
            /\ rc_calls' = << >>
            /\ UNCHANGED <<rc_config, rc_compartments>>
       ELSE /\ rc_profile' = rc_argv[1]
            /\ rc_config' = TRUE
            /\ rc_compartments' = list_call_get_all_results(rc_tenancy.compartments)
            /\ rc_calls' = <<RcCall("IdentityClient", "get_user"),
                             RcCall("IdentityClient", "list_compartments")>>
            /\ rc_pc' = "oracle"
            /\ UNCHANGED <<rc_exit_code, rc_error>>
    /\ UNCHANGED <<rc_tenancy, rc_argv, rc_out>>
    /\ UNCHANGED <<sched_vars, ol_vars, il_vars, rp_vars>>

\* Oracle managed recipes: the recipes of the root compartment owned by ORACLE
RcOracleRecipes ==
    /\ rc_pc = "oracle"
    /\ \E owners \in UNION {[1..n -> {"ORACLE", "CUSTOMER"}] : n \in 0..MaxRecipes} :
        LET data == list_call_get_all_results(
                        [i \in 1..Len(owners) |-> [id |-> <<"root", i>>,
                                                   owner |-> owners[i]]])
            mine == SelectSeq(data, LAMBDA r : r.owner = "ORACLE")
        IN  /\ rc_calls' = <<RcCall("CloudGuardClient", "list_responder_recipes")>>
            /\ rc_out' = [i \in 1..Len(mine) |->
                             [owner |-> mine[i].owner, ocid |-> mine[i].id,
                              compartment |-> "root"]]
    /\ rc_pc' = "user"
    /\ UNCHANGED <<rc_tenancy, rc_argv, rc_profile, rc_config, rc_compartments,
                   rc_exit_code, rc_error>>
    /\ UNCHANGED <<sched_vars, ol_vars, il_vars, rp_vars>>

\* User managed recipes: one search, then the details and the full
\* compartment name of every item of the answer; exit (0)
RcUserRecipes ==
    /\ rc_pc = "user"
    /\ \E where \in UNION {[1..n -> 0..MaxCpt] : n \in 0..MaxRecipes} :
        LET found == [i \in 1..Len(where) |->
                         [identifier |-> <<"search", i>>,
                          compartment_id |-> Ocid(where[i])]]
            items == FirstPage(found)
            names == [i \in 1..Len(items) |->
                         get_cpt_full_name_from_id(rc_compartments,
                                                   items[i].compartment_id)]
            bad   == {i \in 1..Len(items) : names[i] = "RecursionError"}
            upto  == IF bad = {} THEN Len(items)
                     ELSE (CHOOSE i \in bad : \A j \in bad : i <= j) - 1
        IN  /\ rc_calls' = <<RcCall("SearchClient", "search_resources")>>
                           \o [i \in 1..upto |->
                                 RcCall("CloudGuardClient", "get_responder_recipe")]
            /\ rc_out' = [i \in 1..upto |->
                             [owner |-> "CUSTOMER", ocid |-> items[i].identifier,
                              compartment |-> names[i]]]
            /\ rc_pc' = "exited"
            /\ IF bad = {}
               THEN rc_exit_code' = 0 /\ UNCHANGED rc_error
               ELSE rc_exit_code' = 1 /\ rc_error' = "RecursionError"
    /\ UNCHANGED <<rc_tenancy, rc_argv, rc_profile, rc_config, rc_compartments>>
    /\ UNCHANGED <<sched_vars, ol_vars, il_vars, rp_vars>>

NextRecipes ==
    \/ RcStartup
    \/ RcOracleRecipes
    \/ RcUserRecipes

\* ------------------------------------------------------------- HTML report
Services == {"iam", "core", "search", "database", "objectstorage"}

NoEndpoints == [s \in Services |-> ""]

\* mutant: the database endpoint stays in the first region
set_region_and_endpoints_Pinned(region_name) ==
    [current_region |-> region_name,
     endpoints |-> [s \in Services |->
                      IF s = "database" THEN RegionName(1) ELSE region_name]]

\* set_region_and_endpoints: current_region and the five endpoints
set_region_and_endpoints(region_name) ==
    [current_region |-> region_name,
     endpoints |-> [s \in Services |-> region_name]]

\* os.environ[...] in get_email_configuration, in the order of the lookups
EmailVars == <<"EMAIL_SMTP_USER", "EMAIL_SMTP_PASSWORD", "EMAIL_SMTP_HOST",
               "EMAIL_SMTP_PORT", "EMAIL_SENDER_NAME", "EMAIL_SENDER_ADDRESS">>

\* get_email_configuration: the lookups go on until one raises KeyError;
\* read is what was looked up, ok tells whether all six were found
get_email_configuration(environ) ==
    LET missing == {i \in 1..Len(EmailVars) : EmailVars[i] \notin environ}
        stop    == IF missing = {} THEN Len(EmailVars)
                   ELSE CHOOSE i \in missing : \A j \in missing : i <= j
    IN  [ok |-> missing = {}, read |-> SubSeq(EmailVars, 1, stop)]

\* an option that was not given is None
None == "None"

\* truth value of an optional string argument: None and "" are false
Truthy(v) == v \notin {None, ""}

\* mutant: the email configuration is read whatever the arguments
EmailWanted_Always(args) == TRUE

\* "if args.email:"
EmailWanted(args) == Truthy(args.email)

\* A line of the config file is held as the list that line.split('=')
\* makes of it: one part for a header, a blank line or a comment, the key
\* and the value for key=value. Lines carry no white space.
Header(oci_profile) == <<"[" \o oci_profile \o "]">>

Blank == <<"">>

\* my_config before the lines of the profile are read
EmptyConfig ==
    [tenancy |-> "", user |-> "", fingerprint |-> "", key_file |-> "",
     region |-> "", pass_phrase |-> ""]

\* "while lines[c2] != '' and c2 < len(lines)-1: c2 += 1", on indexes from 1
RECURSIVE SectionEnd(_, _)
SectionEnd(lines, c2) ==
    IF lines[c2] # Blank /\ c2 < Len(lines) THEN SectionEnd(lines, c2 + 1) ELSE c2

\* "for line in lines[c1:c2]: kv = line.split('='); my_config[kv[0]] = kv[1]"
RECURSIVE ReadLines(_, _)
ReadLines(section, my_config) ==
    IF section = << >> THEN my_config
    ELSE LET kv == Head(section) IN
         ReadLines(Tail(section), (kv[1] :> kv[2]) @@ my_config)

\* mutant: a profile that is not found is replaced by an empty one
from_file2_Lenient(lines, oci_profile) == [raised |-> FALSE, my_config |-> EmptyConfig]

\* from_file2: the lines after the first header line [oci_profile] up to,
\* and without, the line the while loop stops at. It raises if the file is
\* empty (line is unbound), if no line is the header (ValueError), if the
\* header is the last line (lines[c2]) or if a line read has no '=' (kv[1])
from_file2(lines, oci_profile) ==
    LET found == {i \in 1..Len(lines) : lines[i] = Header(oci_profile)}
        c1 == (CHOOSE i \in found : \A j \in found : i <= j) + 1
        c2 == SectionEnd(lines, c1)
        section == SubSeq(lines, c1, c2 - 1)
    IN  IF found = {} \/ c1 > Len(lines)
            \/ \E i \in 1..Len(section) : Len(section[i]) < 2
        THEN [raised |-> TRUE, my_config |-> EmptyConfig]
        ELSE [raised |-> FALSE, my_config |-> ReadLines(section, EmptyConfig)]

\* a config file with the given profiles, each followed by a blank line
RECURSIVE ConfigFile(_)
ConfigFile(profiles) ==
    IF profiles = {} THEN << >>
    ELSE LET oci_profile == CHOOSE x \in profiles : TRUE IN
         <<Header(oci_profile), <<"user", "u1">>, <<"region", "r1">>, Blank>>
         \o ConfigFile(profiles \ {oci_profile})

\* the token that the service hands out for page k of a listing
Token(k) == "page-" \o ToString(k)

\* the answer of GET /compartments: without a page parameter the first
\* page, with one the page of that token; the header opc-next-page names the
\* following page when there is one
ListCompartments(all, page) ==
    LET pages == Pages(all)
        k == IF page = None THEN 1
             ELSE CHOOSE i \in 1..Len(pages) : Token(i) = page
    IN  [json |-> pages[k],
         headers |-> IF k < Len(pages) THEN [opc_next_page |-> Token(k + 1)]
                     ELSE << >>]

\* the while loop of get_all_compartments: the answers that follow one
\* answer, each requested with the token of the answer before it
RECURSIVE PagesFrom(_, _)
PagesFrom(all, response) ==
    IF "opc_next_page" \in DOMAIN response.headers
    THEN LET next == ListCompartments(all, response.headers.opc_next_page)
         IN  <<next>> \o PagesFrom(all, next)
    ELSE << >>

\* every answer that get_all_compartments receives, in order
CompartmentResponses(all) ==
    LET first == ListCompartments(all, None) IN <<first>> \o PagesFrom(all, first)

\* the page parameter of each request of get_all_compartments
CompartmentRequests(all) ==
    LET r == CompartmentResponses(all)
    IN  [k \in 1..Len(r) |-> IF k = 1 THEN None ELSE r[k - 1].headers.opc_next_page]

\* mutant: the first answer only
get_all_compartments_OnePage(all) == ListCompartments(all, None).json

\* get_all_compartments: compartments += response.json() for every answer
get_all_compartments(all) ==
    LET r == CompartmentResponses(all)
    IN  Concat([k \in 1..Len(r) |-> r[k].json])

\* mutant: an HTTP error is reported and the script goes on
response_error_Warning(failed) == FALSE

\* response_error: raise_for_status() raises on an HTTP error status, the
\* handler prints ERROR and calls exit (1)
response_error(failed) == failed

\* the requests that are followed by response_error; the maintenance runs,
\* the pluggable databases and the object storage requests are not
Guarded(c) ==
    c.op \notin {"maintenanceRuns", "pluggableDatabases", "namespace", "put"}

\* where a request may fail: nowhere (0), or at one guarded request
FailPoints(requests) == {0} \cup {i \in 1..Len(requests) : Guarded(requests[i])}

\* the requests up to the one that failed
UpTo(requests, i) == SubSeq(requests, 1, i - 1) \o <<Failed(requests[i])>>

Kinds == <<"exadatainfrastructure", "vmcluster", "dbhome", "autonomousvmcluster",
           "autonomouscontainerdatabase", "autonomousdatabase">>

\* resource number i of a kind in a region; the second autonomous VM cluster
\* of every region is TERMINATED
Resource(kind, region, i) ==
    [identifier |-> <<kind, region, i>>, displayName |-> i,
     lifecycleState |-> IF kind = "autonomousvmcluster" /\ i = 2 THEN "TERMINATED"
                        ELSE "AVAILABLE"]

\* what the search service of a region holds for a kind, newest first
Found(kind, region) ==
    [j \in 1..rp_tenancy.count |->
        Resource(kind, region, rp_tenancy.count + 1 - j)]

\* search_resources: one POST with limit 1000, the items of that one answer
search_resources(kind, region) == FirstPage(Found(kind, region))

\* sorted(items, key=operator.itemgetter('displayName'))
RECURSIVE sorted(_)
sorted(items) ==
    IF items = << >> THEN << >>
    ELSE LET least == CHOOSE i \in 1..Len(items) :
                         \A j \in 1..Len(items) :
                            \/ items[i].displayName < items[j].displayName
                            \/ items[i].displayName = items[j].displayName /\ i <= j
         IN  <<items[least]>>
             \o sorted(SubSeq(items, 1, least - 1) \o SubSeq(items, least + 1, Len(items)))

\* the items a search function asks the details of
Detailed(kind, items) ==
    IF kind = "autonomousvmcluster"
    THEN SelectSeq(sorted(items), LAMBDA x : x.lifecycleState # "TERMINATED")
    ELSE sorted(items)

\* DB home number i holds i databases; list_databases_in_dbhome is one GET
list_databases_in_dbhome(db_home_id) ==
    FirstPage([j \in 1..db_home_id[3] |-> <<db_home_id, j>>])

\* the requests of one ..._get_details call after its first GET
DetailCalls(kind) ==
    IF kind \in {"exadatainfrastructure", "autonomousvmcluster"}
    THEN <<"maintenanceRuns">>
    ELSE IF kind = "vmcluster" THEN <<"patches", "updates">>
    ELSE IF kind = "dbhome" THEN <<"patches", "databases", "pluggableDatabases">>
    ELSE << >>

RpCall(eps, service, op) == [service |-> service, endpoint |-> eps[service], op |-> op]

\* the module-level list a kind is collected in
ListOf(kind) ==
    CASE kind = "exadatainfrastructure"       -> "exadatainfrastructures"
      [] kind = "vmcluster"                   -> "vmclusters"
      [] kind = "dbhome"                      -> "db_homes"
      [] kind = "autonomousvmcluster"         -> "autonomousvmclusters"
      [] kind = "autonomouscontainerdatabase" -> "auto_cdbs"
      [] kind = "autonomousdatabase"          -> "auto_dbs"

NoLists == [exadatainfrastructures |-> << >>, vmclusters |-> << >>,
            db_homes |-> << >>, autonomousvmclusters |-> << >>,
            auto_cdbs |-> << >>, auto_dbs |-> << >>]

\* the block of main that follows the block of a kind
NextBlock(kind, display_dbs) ==
    CASE kind = "exadatainfrastructure" -> "vmcluster"
      [] kind = "vmcluster" -> IF display_dbs THEN "dbhome" ELSE "autonomousvmcluster"
      [] kind = "dbhome" -> "autonomousvmcluster"
      [] kind = "autonomousvmcluster" ->
            IF display_dbs THEN "autonomouscontainerdatabase" ELSE "report"
      [] kind = "autonomouscontainerdatabase" -> "autonomousdatabase"
      [] kind = "autonomousdatabase" -> "report"

\* parse arguments, read the email configuration if asked for, load the
\* profile, set the endpoints, get the regions, the compartments and the
\* name of the tenancy
RpStartup ==
    /\ rp_pc = "start"
    /\ LET conf == get_email_configuration(rp_tenancy.environ)
           sr   == set_region_and_endpoints(rp_tenancy.region)
           cpts == CompartmentRequests(rp_tenancy.compartments)
           requests ==
               <<RpCall(sr.endpoints, "iam", "regionSubscriptions")>>
               \o [k \in 1..Len(cpts) |->
                     RpCall(sr.endpoints, "iam", "compartments") @@ [page |-> cpts[k]]]
               \o <<RpCall(sr.endpoints, "iam", "tenancies")>>
       IN
        /\ rp_email_read' = IF EmailWanted(rp_args) THEN conf.read ELSE << >>
        /\ IF EmailWanted(rp_args) /\ ~conf.ok
           THEN /\ rp_pc' = "exited" /\ rp_exit_code' = 3 /\ rp_error' = "email"
                /\ rp_calls' = << >>
                /\ UNCHANGED <<rp_config, current_region, endpoints, rp_regions,
                               home_region, rp_compartments>>
           ELSE IF from_file2(ConfigFile(rp_tenancy.profiles), rp_args.profile).raised
           THEN /\ rp_pc' = "exited" /\ rp_exit_code' = 2 /\ rp_error' = "profile"
                /\ rp_calls' = << >>
                /\ UNCHANGED <<rp_config, current_region, endpoints, rp_regions,
                               home_region, rp_compartments>>
           ELSE \E failing \in FailPoints(requests) :
                /\ rp_config' = TRUE
                /\ current_region' = sr.current_region
                /\ endpoints' = sr.endpoints
                /\ IF failing > 0 /\ response_error(TRUE)
                   THEN /\ rp_calls' = UpTo(requests, failing)
                        /\ rp_regions' = IF failing > 1 THEN rp_tenancy.regions ELSE << >>
                        /\ home_region' = IF failing > 1 THEN rp_tenancy.home ELSE ""
                        /\ rp_compartments' =
                              IF failing = Len(requests)
                              THEN get_all_compartments(rp_tenancy.compartments)
                              ELSE << >>
                        /\ rp_pc' = "exited" /\ rp_exit_code' = 1
                        /\ rp_error' = "HTTPError"
                   ELSE /\ rp_calls' = [i \in 1..Len(requests) |->
                                          IF i = failing THEN Failed(requests[i])
                                          ELSE requests[i]]
                        /\ rp_regions' = rp_tenancy.regions
                        /\ home_region' = rp_tenancy.home
                        /\ rp_compartments' = get_all_compartments(rp_tenancy.compartments)
                        /\ rp_pc' = "exadatainfrastructure"
                        /\ UNCHANGED <<rp_exit_code, rp_error>>
    /\ UNCHANGED <<rp_tenancy, rp_args, rp_ri, rp_lists, rp_searches, rp_out>>
    /\ UNCHANGED <<sched_vars, ol_vars, il_vars, rc_vars, cf_vars>>

\* One call of the search function of a kind. With -a it is one iteration of
\* "for region in regions", which begins with set_region_and_endpoints; the
\* loop of the last block calls search_auto_cdbs and then search_auto_dbs.
Search(kind) ==
    /\ rp_pc = kind
    /\ LET sets == rp_args.all_regions /\ kind # "autonomousdatabase"
           sr   == IF sets THEN set_region_and_endpoints(rp_regions[rp_ri])
                   ELSE [current_region |-> current_region, endpoints |-> endpoints]
           items == search_resources(kind, sr.endpoints["search"])
           todo  == Detailed(kind, items)
           more  == rp_args.all_regions /\ rp_ri < Len(rp_regions)
           details(x) ==
               <<RpCall(sr.endpoints, "database", "details")>>
               \o [i \in 1..Len(DetailCalls(kind)) |->
                      RpCall(sr.endpoints, "database", DetailCalls(kind)[i])]
           record(x) ==
               IF kind = "dbhome"
               THEN [id |-> x.identifier, region |-> sr.current_region,
                     endpoint |-> sr.endpoints["database"],
                     databases |-> list_databases_in_dbhome(x.identifier)]
               ELSE [id |-> x.identifier, region |-> sr.current_region,
                     endpoint |-> sr.endpoints["database"]]
           requests == <<RpCall(sr.endpoints, "search", "resources")>>
                       \o Concat([i \in 1..Len(todo) |-> details(todo[i])])
           each == 1 + Len(DetailCalls(kind))
       IN
       \E failing \in FailPoints(requests) :
        LET stop == failing > 0 /\ response_error(TRUE)
            \* the items whose record was appended before the script stopped
            done == IF ~stop THEN Len(todo)
                    ELSE IF failing = 1 THEN 0 ELSE (failing - 2) \div each
        IN
        /\ current_region' = sr.current_region
        /\ endpoints' = sr.endpoints
        /\ rp_searches' = Append(rp_searches, <<kind, sr.endpoints["search"]>>)
        /\ rp_calls' = IF stop THEN UpTo(requests, failing)
                       ELSE [i \in 1..Len(requests) |->
                               IF i = failing THEN Failed(requests[i]) ELSE requests[i]]
        /\ rp_lists' = [rp_lists EXCEPT
                            ![ListOf(kind)] = @ \o [i \in 1..done |-> record(todo[i])]]
        /\ IF stop
           THEN /\ rp_pc' = "exited" /\ rp_exit_code' = 1 /\ rp_error' = "HTTPError"
                /\ UNCHANGED rp_ri
           ELSE /\ UNCHANGED <<rp_exit_code, rp_error>>
                /\ IF kind = "autonomouscontainerdatabase"
                   THEN rp_pc' = NextBlock(kind, rp_args.databases) /\ UNCHANGED rp_ri
                   ELSE IF more
                   THEN /\ rp_ri' = rp_ri + 1
                        /\ rp_pc' = IF kind = "autonomousdatabase"
                                     THEN "autonomouscontainerdatabase" ELSE kind
                   ELSE /\ rp_ri' = 1
                        /\ rp_pc' = NextBlock(kind, rp_args.databases)
    /\ UNCHANGED <<rp_tenancy, rp_args, rp_email_read, rp_config, rp_regions,
                   home_region, rp_compartments, rp_out>>
    /\ UNCHANGED <<sched_vars, ol_vars, il_vars, rc_vars, cf_vars>>

search_exadatainfrastructures == Search("exadatainfrastructure")

search_vmclusters == Search("vmcluster")

search_db_homes == Search("dbhome")

search_autonomousvmclusters == Search("autonomousvmcluster")

search_auto_cdbs == Search("autonomouscontainerdatabase")

search_auto_dbs == Search("autonomousdatabase")

\* mutant: the report is stored through the endpoints in use after the sweep
BucketRegion_Current(home, current) == current

\* the region whose endpoints store_report_in_bucket is called with
BucketRegion(home, current) == home

\* generate the HTML report, print it, email it if asked, store it in the
\* bucket through the endpoint of the home region if asked; exit (0)
RpReport ==
    /\ rp_pc = "report"
    /\ LET sr == set_region_and_endpoints(BucketRegion(home_region, current_region)) IN
        /\ rp_out' = <<"stdout">>
                      \o (IF Truthy(rp_args.email) THEN <<"email">> ELSE << >>)
                      \o (IF Truthy(rp_args.bucket_name) THEN <<"bucket">> ELSE << >>)
        /\ IF Truthy(rp_args.bucket_name)
           THEN /\ current_region' = sr.current_region
                /\ endpoints' = sr.endpoints
                /\ rp_calls' = <<RpCall(sr.endpoints, "objectstorage", "namespace"),
                                 RpCall(sr.endpoints, "objectstorage", "put")>>
           ELSE /\ rp_calls' = << >>
                /\ UNCHANGED <<current_region, endpoints>>
    /\ rp_pc' = "exited"
    /\ rp_exit_code' = 0
    /\ UNCHANGED <<rp_tenancy, rp_args, rp_email_read, rp_config, rp_regions,
                   home_region, rp_compartments, rp_error, rp_ri, rp_lists,
                   rp_searches>>
    /\ UNCHANGED <<sched_vars, ol_vars, il_vars, rc_vars, cf_vars>>

\* "try: config = from_file2(configfile, profile)", "except: ... exit (2)"
LoadProfile ==
    /\ cf_pc = "start"
    /\ LET r == from_file2(cf_lines, cf_profile) IN
       IF r.raised
       THEN /\ cf_pc' = "exited" /\ cf_exit_code' = 2
            /\ UNCHANGED cf_config
       ELSE /\ cf_pc' = "loaded" /\ cf_config' = r.my_config
            /\ UNCHANGED cf_exit_code
    /\ UNCHANGED <<cf_lines, cf_profile>>
    /\ UNCHANGED <<rp_tenancy, rp_args, rp_email_read, rp_config, current_region,
                   endpoints, rp_regions, home_region, rp_compartments, rp_pc,
                   rp_exit_code, rp_error, rp_ri, rp_lists, rp_calls, rp_searches,
                   rp_out>>
    /\ UNCHANGED <<sched_vars, ol_vars, il_vars, rc_vars>>

NextConfig == LoadProfile

NextReport ==
    \/ RpStartup
    \/ search_exadatainfrastructures
    \/ search_vmclusters
    \/ search_db_homes
    \/ search_autonomousvmclusters
    \/ search_auto_cdbs
    \/ search_auto_dbs
    \/ RpReport

\* ------------------------------------------------------------- initial states
RegionLists == {[i \in 1..n |-> RegionName(i)] : n \in 1..MaxRegions}

InitProgram ==
    /\ all_regions = FALSE /\ confirm_stop = FALSE /\ confirm_start = FALSE
    /\ current_utc_time = ""
    /\ compartments = << >> /\ regions = << >>
    /\ signer_region = "" /\ DatabaseClient = ""
    /\ exit_code = -1 /\ error = ""
    /\ ri = 1 /\ ci = 1 /\ di = 1 /\ ndbs = 0
    /\ dbs = NoDbs /\ calls = << >> /\ out = << >>
    /\ listed = << >> /\ clients = << >>

OlInitProgram ==
    /\ ol_all_regions = FALSE /\ include_sub_cpt = FALSE
    /\ ol_config_region = ""
    /\ ol_compartments = << >> /\ ol_regions = << >>
    /\ initial_cpt_ocid = ""
    /\ ol_exit_code = -1 /\ ol_error = ""
    /\ ol_ri = 1 /\ ol_stack = << >> /\ ol_visits = << >>
    /\ ol_IdentityClient = "" /\ ol_uses = << >>

\* the objects listing is not run
OlIdle ==
    /\ OlInitProgram
    /\ ol_pc = "off" /\ ol_argv = << >>
    /\ ol_tenancy = [profiles |-> {}, compartments |-> << >>, regions |-> << >>,
                     region |-> ""]

\* the tagged-instances listing is not run
IlInitProgram ==
    /\ il_all_regions = FALSE
    /\ il_args = [profile |-> "", tag_ns |-> "", tag_key |-> ""]
    /\ il_config_region = ""
    /\ il_compartments = << >> /\ il_regions = << >>
    /\ il_ComputeClient = ""
    /\ il_exit_code = -1 /\ il_error = ""
    /\ il_ci = 1 /\ il_instances = << >> /\ il_out = << >> /\ il_listed = << >>

IlIdle ==
    /\ IlInitProgram
    /\ il_pc = "off" /\ il_argv = << >>
    /\ il_tenancy = [profiles |-> {}, compartments |-> << >>, regions |-> << >>,
                     region |-> ""]

\* the responder recipes listing is not run
RcInitProgram ==
    /\ rc_profile = "" /\ rc_config = FALSE
    /\ rc_compartments = << >>
    /\ rc_exit_code = -1 /\ rc_error = ""
    /\ rc_calls = << >> /\ rc_out = << >>

RcIdle ==
    /\ RcInitProgram
    /\ rc_pc = "off" /\ rc_argv = << >>
    /\ rc_tenancy = [profiles |-> {}, compartments |-> << >>]

\* the HTML report is not run
RpProgram ==
    /\ rp_email_read = << >> /\ rp_config = FALSE
    /\ current_region = "" /\ endpoints = NoEndpoints
    /\ rp_regions = << >> /\ home_region = "" /\ rp_compartments = << >>
    /\ rp_exit_code = -1 /\ rp_error = ""
    /\ rp_ri = 1 /\ rp_lists = NoLists
    /\ rp_calls = << >> /\ rp_searches = << >> /\ rp_out = << >>

\* no profile is loaded on its own
ConfigIdle ==
    /\ cf_pc = "off" /\ cf_lines = << >> /\ cf_profile = ""
    /\ cf_config = EmptyConfig /\ cf_exit_code = -1

RpInitProgram == RpProgram /\ ConfigIdle

RpOff ==
    /\ RpProgram
    /\ rp_pc = "off"
    /\ rp_args = [profile |-> None, email |-> None, all_regions |-> FALSE,
                  databases |-> FALSE, bucket_name |-> None]
    /\ rp_tenancy = [profiles |-> {}, environ |-> {}, regions |-> << >>,
                     region |-> "", home |-> "", count |-> 0,
                     compartments |-> << >>]

RpIdle == RpOff /\ ConfigIdle

\* none of the later scripts is run
RestIdle == IlIdle /\ RcIdle /\ RpIdle

\* the scheduler is not run
SchedulerOff ==
    /\ InitProgram
    /\ pc = "off" /\ argv = << >>
    /\ tenancy = [clock |-> 0, tag_hours |-> {}, dbs_states |-> {}, tidy |-> TRUE,
                  compartments |-> << >>, regions |-> << >>, region |-> ""]

\* no pair of runs is followed
RerunIdle ==
    /\ rr_pc = "off" /\ rr_argv = << >> /\ rr_clock = 0
    /\ rr_dbs = NoDbs /\ rr_runs = << >>

SchedulerIdle ==
    /\ RerunIdle
    /\ SchedulerOff

\* the instance runs in one of the subscribed regions
Tenancies(hours, tag_hours, states, tidy, cpts, rgs) ==
    UNION {{[clock |-> h, tag_hours |-> tag_hours, dbs_states |-> states,
             tidy |-> tidy, compartments |-> c, regions |-> r, region |-> r[s]] :
               h \in hours, c \in cpts, s \in 1..Len(r)} : r \in rgs}

\* a run over a whole tidy tenancy with the tags set to RunHours, at that
\* hour or the next one: every state of the compartments, every region list
RunHours == {9}

RunClock == {9, 10}

Init ==
    /\ OlIdle /\ RestIdle
    /\ InitProgram /\ RerunIdle
    /\ pc = "start"
    /\ argv \in ArgvSet
    /\ tenancy \in Tenancies(RunClock, RunHours, {"AVAILABLE"}, TRUE,
                             CompartmentLists, RegionLists)

\* one compartment, one region, every hour of the clock: DB systems with any
\* subset of the two tags set to one of TagHours, any node list, any state
TagHours == {9, 23}

\* a run that may last into the next hour: started at 09 or at 23 over a
\* tidy tenancy tagged with these hours, as a dry run of the region of the
\* instance or as a confirmed sweep
RolloverArgv == {<< >>, <<"-a", "--confirm_start", "--confirm_stop">>}

InitRollover ==
    /\ OlIdle /\ RestIdle
    /\ InitProgram /\ RerunIdle
    /\ pc = "start"
    /\ argv \in RolloverArgv
    /\ tenancy \in Tenancies(TagHours, TagHours, {"AVAILABLE"}, TRUE,
                             CompartmentLists, RegionLists)

SpecRollover == InitRollover /\ [][NextRollover]_vars

DecideArgv ==
    {<< >>, <<"-a">>, <<"--confirm_stop">>, <<"--confirm_start">>,
     <<"--confirm_start", "--confirm_stop">>, <<"-h">>}

InitDecide ==
    /\ OlIdle /\ RestIdle
    /\ InitProgram /\ RerunIdle
    /\ pc = "start"
    /\ argv \in DecideArgv
    /\ tenancy \in Tenancies(0..(HoursPerDay - 1), TagHours,
                             {"AVAILABLE", "TERMINATED"}, FALSE,
                             {<<[id |-> 1, compartment_id |-> 0,
                                 lifecycle_state |-> "ACTIVE"]>>},
                             {<<RegionName(1)>>})

SpecDecide == InitDecide /\ [][Next]_vars

\* two runs over one DB system of any tags, node list and state, started at
\* one of TagHours, with both confirm flags or as a dry run
RerunArgv == {<< >>, <<"--confirm_stop", "--confirm_start">>,
              <<"--confirm_start", "--confirm_stop">>}

InitRerun ==
    /\ SchedulerOff /\ OlIdle /\ RestIdle
    /\ rr_pc = "first"
    /\ rr_argv \in RerunArgv
    /\ rr_clock \in TagHours
    /\ rr_dbs \in DbSystems({Bucket(h) : h \in TagHours}, {"AVAILABLE"})
    /\ rr_runs = << >>

SpecRerun == InitRerun /\ [][NextRerun]_vars

\* the objects listing over every compartment tree and region list
OlFlagSeqs == {<< >>, <<"-a">>, <<"-r">>, <<"-x">>, <<"-a", "-r">>, <<"-r", "-a">>,
               <<"-r", "-r">>}

OlArgvSet ==
    {f \o <<p, c>> : f \in OlFlagSeqs, p \in {"DEFAULT", "OTHER"},
                     c \in {Ocid(i) : i \in 1..MaxCpt} \cup {CptName(1), "nowhere"}}
    \cup {<< >>, <<"DEFAULT">>}

InitObjects ==
    /\ SchedulerIdle /\ RestIdle
    /\ OlInitProgram
    /\ ol_pc = "start"
    /\ ol_argv \in OlArgvSet
    /\ ol_tenancy \in
         UNION {{[profiles |-> {"DEFAULT"}, compartments |-> c, regions |-> r,
                  region |-> r[k]] : c \in OlCompartmentLists, k \in 1..Len(r)} :
                r \in RegionLists}

SpecObjects == InitObjects /\ [][NextObjects]_vars

\* the tagged-instances listing over every compartment list and region list
IlArgvSet ==
    {f \o <<p, "osc", k>> : f \in {<< >>, <<"-a">>, <<"-r">>},
                             p \in {"DEFAULT", "OTHER"}, k \in {"owner", "cost"}}
    \cup {<< >>, <<"DEFAULT">>, <<"-a", "DEFAULT">>,
          <<"-a", "-a", "DEFAULT", "osc", "owner">>}

InitInstances ==
    /\ SchedulerIdle /\ OlIdle /\ RcIdle /\ RpIdle
    /\ IlInitProgram
    /\ il_pc = "start"
    /\ il_argv \in IlArgvSet
    /\ il_tenancy \in
         UNION {{[profiles |-> {"DEFAULT"}, compartments |-> c, regions |-> r,
                  region |-> r[k]] : c \in CompartmentLists, k \in 1..Len(r)} :
                r \in RegionLists}

SpecInstances == InitInstances /\ [][NextInstances]_vars

\* the responder recipes listing over every compartment tree
RcArgvSet == {<< >>, <<"DEFAULT">>, <<"OTHER">>, <<"-a">>, <<"-a", "DEFAULT">>,
              <<"DEFAULT", "OTHER">>}

\* the answers of list_compartments that leave some compartments of the
\* tree out, so that a compartment may come without its parent
RcPartialLists ==
    {SelectSeq(c, LAMBDA x : x.id \in {Ocid(k) : k \in K}) :
        c \in RcCompartmentLists, K \in SUBSET (1..MaxCpt)}

InitRecipes ==
    /\ SchedulerIdle /\ OlIdle /\ IlIdle /\ RpIdle
    /\ RcInitProgram
    /\ rc_pc = "start"
    /\ rc_argv \in RcArgvSet
    /\ rc_tenancy \in {[profiles |-> {"DEFAULT"}, compartments |-> c] :
                          c \in RcPartialLists}

SpecRecipes == InitRecipes /\ [][NextRecipes]_vars

\* the HTML report: every combination of the options, os.environ complete,
\* without its last variable or empty, every region list with the profile
\* and the home in any of its regions, 0..MaxItems resources of every kind
RpArgs ==
    [profile : {"DEFAULT", "OTHER"}, email : {None, "", "ops@example.com"},
     all_regions : BOOLEAN, databases : BOOLEAN, bucket_name : {None, "", "reports"}]

Environs ==
    {{}, Range(EmailVars), Range(EmailVars) \ {EmailVars[4]}}

RpCompartments ==
    [i \in 1..MaxCpt |-> [id |-> Ocid(i), name |-> CptName(i),
                          compartmentId |-> Ocid(i - 1)]]

InitReport ==
    /\ SchedulerIdle /\ OlIdle /\ IlIdle /\ RcIdle
    /\ RpInitProgram
    /\ rp_pc = "start"
    /\ rp_args \in RpArgs
    /\ rp_tenancy \in
         UNION {{[profiles |-> {"DEFAULT"}, environ |-> e, regions |-> r,
                  region |-> r[k], home |-> r[h], count |-> n,
                  compartments |-> SubSeq(RpCompartments, 1, c)] :
                    e \in Environs, k \in 1..Len(r), h \in 1..Len(r),
                    n \in 0..MaxItems, c \in 0..MaxCpt} : r \in RegionLists}

SpecReport == InitReport /\ [][NextReport]_vars

\* from_file2 on every config file of up to MaxLines lines made of the
\* headers of two profiles, blank lines, two key=value lines of different
\* keys, a second value for one of the keys, and a comment
MaxLines == 4

ConfigLineSet ==
    {Header("DEFAULT"), Header("OTHER"), Blank, <<"user", "u1">>,
     <<"region", "r1">>, <<"region", "r2">>, <<"# comment">>}

InitConfig ==
    /\ SchedulerIdle /\ OlIdle /\ IlIdle /\ RcIdle /\ RpOff
    /\ cf_pc = "start"
    /\ cf_lines \in UNION {[1..n -> ConfigLineSet] : n \in 0..MaxLines}
    /\ cf_profile \in {"DEFAULT", "OTHER"}
    /\ cf_config = EmptyConfig /\ cf_exit_code = -1

SpecConfig == InitConfig /\ [][NextConfig]_vars

\* any one of the five scripts is run, the scheduler and the objects listing
\* in a tenancy whose compartments are all ACTIVE
AllActive(cpts) == \A i \in 1..Len(cpts) : cpts[i].lifecycle_state = "ACTIVE"

InitScripts ==
    \/ /\ OlIdle /\ RestIdle
       /\ InitProgram /\ RerunIdle
       /\ pc = "start"
       /\ argv \in ArgvSet
       /\ tenancy \in Tenancies(RunHours, RunHours, {"AVAILABLE"}, TRUE,
                                {c \in CompartmentLists : AllActive(c)}, RegionLists)
    \/ /\ SchedulerIdle /\ RestIdle
       /\ OlInitProgram
       /\ ol_pc = "start"
       /\ ol_argv \in OlArgvSet
       /\ ol_tenancy \in
            UNION {{[profiles |-> {"DEFAULT"}, compartments |-> c, regions |-> r,
                     region |-> r[k]] :
                       c \in {x \in OlCompartmentLists : AllActive(x)},
                       k \in 1..Len(r)} : r \in RegionLists}
    \/ InitInstances
    \/ InitRecipes
    \/ InitReport

NextScripts ==
    \/ Next
    \/ NextObjects
    \/ NextInstances
    \/ NextRecipes
    \/ NextReport

SpecScripts == InitScripts /\ [][NextScripts]_vars

Spec == Init /\ [][Next]_vars

\* ------------------------------------------------------------- reading a state
\* the last step was an iteration of the loop over the DB systems, and the
\* service answered its node listing
Evaluated ==
    /\ dbs # NoDbs
    /\ \A c \in Range(calls) : c.op = "list_db_nodes" => ~IsFailed(c)

HasTag(d, k) ==
    tag_ns \in DOMAIN d.defined_tags /\ k \in DOMAIN d.defined_tags[tag_ns]

TagOf(d, k) == d.defined_tags[tag_ns][k]

NodeActions == SelectSeq(calls, LAMBDA c : c.op = "db_node_action")

StartMessages == {"STARTING", "SHOULD BE STARTED"}
StopMessages  == {"STOPPING", "SHOULD BE STOPPED"}

\* the decision taken for the DB system of the last step
DecidedStart == Evaluated /\ Len(out) = 1 /\ out[1].msg \in StartMessages
DecidedStop  == Evaluated /\ Len(out) = 1 /\ out[1].msg \in StopMessages
DecidedNone  == Evaluated /\ out = << >> /\ NodeActions = << >>

\* ------------------------------------------------------------- claims
\* C1: a DB system whose first node is neither STOPPED nor AVAILABLE gets
\* decision none: no START, no STOP and no intent message, whatever its
\* tags and whatever the bucket.
C1_OtherStateNone ==
    (Evaluated /\ dbs.nodes # << >> /\ dbs.nodes[1] \notin {"STOPPED", "AVAILABLE"})
        => DecidedNone

\* C1 witness: a node in another state whose two tags both equal the bucket,
\* in a run with both confirm flags
C1_Witness ==
    /\ Evaluated /\ dbs.nodes # << >> /\ dbs.nodes[1] = "STOPPING"
    /\ HasTag(dbs, tag_key_stop) /\ TagOf(dbs, tag_key_stop) = current_utc_time
    /\ HasTag(dbs, tag_key_start) /\ TagOf(dbs, tag_key_start) = current_utc_time
    /\ confirm_stop /\ confirm_start

\* C2 (as claimed): a DB system tagged automatic_startup = "H:00_UTC" whose
\* first node is STOPPED gets decision start when the bucket is "H:00_UTC"
\* and decision none at any other bucket.
C2_StartAtTaggedHour ==
    (/\ Evaluated /\ dbs.nodes # << >> /\ dbs.nodes[1] = "STOPPED"
     /\ HasTag(dbs, tag_key_start))
        => IF TagOf(dbs, tag_key_start) = current_utc_time
           THEN DecidedStart
           ELSE DecidedNone

\* C3 (as claimed): a DB system whose first node is AVAILABLE and whose
\* automatic_shutdown tag equals the bucket gets decision stop, whatever the
\* start tag is, an absent start tag included.
C3_StopAtTaggedHour ==
    (/\ Evaluated /\ dbs.nodes # << >> /\ dbs.nodes[1] = "AVAILABLE"
     /\ HasTag(dbs, tag_key_stop) /\ TagOf(dbs, tag_key_stop) = current_utc_time)
        => DecidedStop

\* C4: a DB system with no defined tags (no namespace, or neither key) gets
\* decision none in every bucket and node state, and a failed tag lookup
\* never ends the run: the loop goes on to the next DB system.
C4_UntaggedNone ==
    /\ (Evaluated /\ ~HasTag(dbs, tag_key_stop) /\ ~HasTag(dbs, tag_key_start))
           => DecidedNone
    /\ (Evaluated /\ (~HasTag(dbs, tag_key_stop) \/ ~HasTag(dbs, tag_key_start)))
           => /\ error # "KeyError"
              /\ dbs.nodes # << >> => (pc = "db_systems" /\ exit_code = -1)

\* C4 witness: a second DB system is evaluated after an untagged one, at the
\* last bucket of the day, both untagged with a STOPPED node
C4_Witness ==
    /\ Evaluated /\ dbs.id[3] = 2 /\ dbs.defined_tags = << >>
    /\ dbs.nodes # << >> /\ dbs.nodes[1] = "STOPPED"
    /\ current_utc_time = "23:00_UTC" /\ pc = "db_systems"

\* C5: dry run. Without --confirm_stop and --confirm_start no db_node_action
\* is ever called, and a DB system that is due (both tags set, the relevant
\* one equal to the bucket, node STOPPED resp. AVAILABLE) gets its intent
\* message.
C5_DryRun ==
    ("--confirm_stop" \notin Range(argv) /\ "--confirm_start" \notin Range(argv))
        => /\ NodeActions = << >>
           /\ \A i \in 1..Len(out) :
                 out[i].msg \in {"SHOULD BE STARTED", "SHOULD BE STOPPED"}
           /\ (/\ Evaluated /\ dbs.nodes # << >>
               /\ HasTag(dbs, tag_key_stop) /\ HasTag(dbs, tag_key_start))
                 => /\ (dbs.nodes[1] = "STOPPED"
                          /\ TagOf(dbs, tag_key_start) = current_utc_time)
                       => (Len(out) = 1 /\ out[1].msg = "SHOULD BE STARTED"
                             /\ out[1].dbs = dbs.id)
                    /\ (dbs.nodes[1] = "AVAILABLE"
                          /\ TagOf(dbs, tag_key_stop) = current_utc_time)
                       => (Len(out) = 1 /\ out[1].msg = "SHOULD BE STOPPED"
                             /\ out[1].dbs = dbs.id)

\* C5 witness: a dry run with -a prints a stop intent
C5_Witness ==
    /\ argv = <<"-a">> /\ Evaluated
    /\ Len(out) = 1 /\ out[1].msg = "SHOULD BE STOPPED" /\ NodeActions = << >>

\* C6: the API calls are the two listings and db_node_action START / STOP;
\* START needs --confirm_start on the command line, STOP needs
\* --confirm_stop.
C6_GatedMutations ==
    \A i \in 1..Len(calls) :
        /\ calls[i].op \in {"list_db_systems", "list_db_nodes", "db_node_action"}
        /\ calls[i].op = "db_node_action" =>
              \/ calls[i].action = "START" /\ "--confirm_start" \in Range(argv)
              \/ calls[i].action = "STOP" /\ "--confirm_stop" \in Range(argv)

\* C6 witness: with -a --confirm_start only, a START is issued in the second
\* region
C6_Witness ==
    /\ argv = <<"-a", "--confirm_start">> /\ ri = 2
    /\ Len(NodeActions) = 1 /\ NodeActions[1].action = "START"

NoDuplicates(q) == \A i, j \in 1..Len(q) : q[i] = q[j] => i = j

\* C7: one DB system gets at most one of START, STOP, start intent, stop
\* intent in a run: an iteration prints at most one message and issues at
\* most one action, of the same kind, for the DB system it evaluates, and no
\* compartment of a region is listed twice.
C7_NeverBoth ==
    /\ Len(out) <= 1
    /\ Len(NodeActions) <= 1
    /\ \A i \in 1..Len(out) : out[i].dbs = dbs.id
    /\ \A i \in 1..Len(NodeActions) :
          /\ NodeActions[i].db_system_id = dbs.id
          /\ Len(out) = 1
          /\ NodeActions[i].action = "START" <=> out[1].msg = "STARTING"
          /\ NodeActions[i].action = "STOP" <=> out[1].msg = "STOPPING"
    /\ NoDuplicates(listed)

\* C7 witness: both tags equal the bucket, both flags given, second region
C7_Witness ==
    /\ Evaluated /\ all_regions /\ ri = 2 /\ confirm_stop /\ confirm_start
    /\ HasTag(dbs, tag_key_stop) /\ TagOf(dbs, tag_key_stop) = current_utc_time
    /\ HasTag(dbs, tag_key_start) /\ TagOf(dbs, tag_key_start) = current_utc_time
    /\ Len(NodeActions) = 1

IsPrefix(a, b) == Len(a) <= Len(b) /\ SubSeq(b, 1, Len(a)) = a

Front(q) == SubSeq(q, 1, Len(q) - 1)

\* compartment id or one of its ancestors is DELETED (0 is the tenancy root)
RECURSIVE UnderDeleted(_)
UnderDeleted(id) ==
    /\ id # 0
    /\ \/ compartments[id].lifecycle_state = "DELETED"
       \/ UnderDeleted(compartments[id].compartment_id)

Finished == pc = "exited" /\ exit_code = 0

PassRegions == IF all_regions THEN regions ELSE <<tenancy.region>>

\* the list_db_systems calls of one pass over region r, in order
PassListing(r) ==
    LET live == SelectSeq(compartments, LAMBDA c : c.lifecycle_state # "DELETED")
    IN  [i \in 1..Len(live) |-> <<r, live[i].id>>]

RECURSIVE SweepListing(_)
SweepListing(rs) ==
    IF rs = << >> THEN << >> ELSE PassListing(Head(rs)) \o SweepListing(Tail(rs))

\* C10: with -a one pass per subscribed region, in the order of the region
\* list, each over the whole compartment list once and finished before the
\* next begins; without -a one pass, in the region of the signer. Every call
\* of a pass goes to the endpoint of the client built for that pass.
C10_RegionSweep ==
    /\ pc # "start" => IsPrefix(clients, PassRegions)
    /\ IsPrefix(listed, SweepListing(clients))
    /\ clients # << >> => IsPrefix(SweepListing(Front(clients)), listed)
    /\ \A i \in 1..Len(calls) :
          /\ clients # << >>
          /\ calls[i].endpoint = clients[Len(clients)]
          /\ calls[i].endpoint = signer_region
          /\ all_regions => calls[i].endpoint = regions[ri]
    /\ Finished => /\ clients = PassRegions
                   /\ listed = SweepListing(PassRegions)

\* C10 witness: a finished -a run of an instance of the second region, two
\* passes over at least one compartment each
C10_Witness ==
    /\ Finished /\ all_regions /\ Len(regions) = 2 /\ tenancy.region = regions[2]
    /\ clients = regions /\ Len(listed) >= 2
    /\ listed[1][1] = regions[1] /\ listed[Len(listed)][1] = regions[2]

\* ------------------------------------------------------------- claims, objects listing
OlCpt(ocid) == CHOOSE c \in Range(ol_tenancy.compartments) : c.id = ocid

\* ocid is the start compartment, or an ACTIVE compartment whose parent is
\* reached
RECURSIVE OlReached(_)
OlReached(ocid) ==
    /\ ocid # Ocid(0)
    /\ \/ ocid = initial_cpt_ocid
       \/ /\ OlCpt(ocid).lifecycle_state = "ACTIVE"
          /\ OlReached(OlCpt(ocid).compartment_id)

OlFlags == {ol_argv[i] : i \in 1..(Len(ol_argv) - 2)}

\* the compartments and the regions the command line asks for
OlExpected ==
    IF "-r" \in OlFlags
    THEN {c.id : c \in {x \in Range(ol_tenancy.compartments) : OlReached(x.id)}}
    ELSE {initial_cpt_ocid}

OlProcessedRegions ==
    IF "-a" \in OlFlags THEN Range(ol_tenancy.regions) ELSE {ol_tenancy.region}

OlFinished == ol_pc = "exited" /\ ol_exit_code = 0

\* C9: with -r the objects listing visits the start compartment and every
\* compartment reached from it through ACTIVE sub-compartments, once for
\* the common objects and once per processed region, and no other
\* compartment; without -r it visits the start compartment only.
C9_RecursiveVisit ==
    /\ NoDuplicates(ol_visits)
    /\ \A i \in 1..Len(ol_visits) :
          /\ ol_visits[i].cpt \in OlExpected
          /\ ol_visits[i].region \in
                (IF ol_visits[i].fn = "common" THEN {ol_tenancy.region}
                 ELSE OlProcessedRegions)
    /\ OlFinished =>
          \A x \in OlExpected :
              /\ [fn |-> "common", region |-> ol_tenancy.region, cpt |-> x]
                    \in Range(ol_visits)
              /\ \A r \in OlProcessedRegions :
                    [fn |-> "region", region |-> r, cpt |-> x] \in Range(ol_visits)

\* C9 witness: a finished -a -r run from compartment 1 over two regions:
\* its ACTIVE child 2 is visited, the DELETING child 3 of 2 is not
C9_Witness ==
    /\ OlFinished /\ "-r" \in OlFlags /\ "-a" \in OlFlags
    /\ Len(ol_regions) = 2
    /\ initial_cpt_ocid = Ocid(1)
    /\ OlCpt(Ocid(2)).compartment_id = Ocid(1)
    /\ OlCpt(Ocid(2)).lifecycle_state = "ACTIVE"
    /\ OlCpt(Ocid(3)).compartment_id = Ocid(2)
    /\ OlCpt(Ocid(3)).lifecycle_state = "DELETING"
    /\ Len(ol_visits) = 6
    /\ \A r \in Range(ol_regions) :
          [fn |-> "region", region |-> r, cpt |-> Ocid(2)] \in Range(ol_visits)

\* ------------------------------------------------------------- claims, tagged instances
IlFinished == il_pc = "exited" /\ il_exit_code = 0

\* the list_instances calls of one pass over region r, in order
IlPassListing(r) ==
    LET live == SelectSeq(il_compartments, LAMBDA c : c.lifecycle_state # "DELETED")
    IN  [i \in 1..Len(live) |-> <<r, live[i].id>>]

RECURSIVE IlSweepListing(_)
IlSweepListing(rs) ==
    IF rs = << >> THEN << >>
    ELSE IlPassListing(Head(rs)) \o IlSweepListing(Tail(rs))

\* C11 (as claimed): a finished run of the tagged-instances listing with -a
\* has processed the compartments once per subscribed region, each pass
\* through that region's endpoint; a finished run without -a has processed
\* them once, through the endpoint of the region of the profile.
C11_AllRegionsListed ==
    IlFinished =>
        il_listed = IlSweepListing(IF "-a" \in Range(il_argv) THEN il_tenancy.regions
                                   ELSE <<il_tenancy.region>>)

\* ------------------------------------------------------------- claims, command lines
\* the words of a command line before its last n positional arguments
FlagWords(av, n) == {av[i] : i \in 1..(Len(av) - n)}

\* command lines the usage texts do not allow: a wrong number of arguments,
\* or a word that is no flag of the script where a flag is expected
SchedulerBadArgv ==
    \/ Len(argv) > 3
    \/ ~(Range(argv) \subseteq {"-a", "--confirm_stop", "--confirm_start"})

ObjectsBadArgv ==
    \/ Len(ol_argv) \notin {2, 3, 4}
    \/ ~(FlagWords(ol_argv, 2) \subseteq {"-a", "-r"})

InstancesBadArgv ==
    \/ Len(il_argv) \notin {3, 4}
    \/ ~(FlagWords(il_argv, 3) \subseteq {"-a"})

RecipesBadArgv == Len(rc_argv) # 1

\* C12 (as claimed): in the four scripts that parse argv by hand, a command
\* line with an unsupported number of arguments or an unrecognised flag ends
\* in usage with exit status 1, before the config file is read and before
\* any API call.
C12_UsageOnBadArgv ==
    /\ (pc \notin {"off", "start"} /\ SchedulerBadArgv)
          => /\ pc = "exited" /\ error = "usage" /\ exit_code = 1
             /\ signer_region = "" /\ compartments = << >> /\ clients = << >>
    /\ (ol_pc \notin {"off", "start"} /\ ObjectsBadArgv)
          => /\ ol_pc = "exited" /\ ol_error = "usage" /\ ol_exit_code = 1
             /\ ol_config_region = "" /\ ol_compartments = << >> /\ ol_visits = << >>
    /\ (il_pc \notin {"off", "start"} /\ InstancesBadArgv)
          => /\ il_pc = "exited" /\ il_error = "usage" /\ il_exit_code = 1
             /\ il_config_region = "" /\ il_compartments = << >> /\ il_listed = << >>
    /\ (rc_pc \notin {"off", "start"} /\ RecipesBadArgv)
          => /\ rc_pc = "exited" /\ rc_error = "usage" /\ rc_exit_code = 1
             /\ ~rc_config /\ rc_compartments = << >> /\ rc_calls = << >>

\* ------------------------------------------------------------- claims, profiles
\* the profile an accepted command line names, None when it is not accepted
ObjectsProfile ==
    IF ~ObjectsBadArgv /\ (Len(ol_argv) = 4 => ol_argv[1] # ol_argv[2])
    THEN ol_argv[Len(ol_argv) - 1] ELSE None

InstancesProfile == IF ~InstancesBadArgv THEN il_argv[Len(il_argv) - 2] ELSE None

RecipesProfile == IF ~RecipesBadArgv THEN rc_argv[1] ELSE None

\* the three SDK scripts: a profile that the config file does not have ends
\* the script with the profile error and exit status 2, nothing fetched
SdkProfileMissing ==
    /\ (ol_pc \notin {"off", "start"} /\ ObjectsProfile # None
          /\ ObjectsProfile \notin ol_tenancy.profiles)
          => /\ ol_pc = "exited" /\ ol_error = "profile" /\ ol_exit_code = 2
             /\ ol_config_region = "" /\ ol_compartments = << >> /\ ol_visits = << >>
    /\ (il_pc \notin {"off", "start"} /\ InstancesProfile # None
          /\ InstancesProfile \notin il_tenancy.profiles)
          => /\ il_pc = "exited" /\ il_error = "profile" /\ il_exit_code = 2
             /\ il_config_region = "" /\ il_compartments = << >> /\ il_listed = << >>
    /\ (rc_pc \notin {"off", "start"} /\ RecipesProfile # None
          /\ RecipesProfile \notin rc_tenancy.profiles)
          => /\ rc_pc = "exited" /\ rc_error = "profile" /\ rc_exit_code = 2
             /\ ~rc_config /\ rc_compartments = << >> /\ rc_calls = << >>

\* the report ended with the profile error, exit status 2 and no API call
ReportProfileError ==
    /\ rp_pc = "exited" /\ rp_error = "profile" /\ rp_exit_code = 2
    /\ ~rp_config /\ current_region = "" /\ rp_calls = << >>
    /\ rp_searches = << >> /\ rp_out = << >>

\* --email names recipients and one of the EMAIL_* variables is not set
EmailUnconfigured ==
    /\ rp_args.email \notin {None, ""}
    /\ ~(Range(EmailVars) \subseteq rp_tenancy.environ)

\* C13 (as claimed): in every profile-based script (objects listing, tagged
\* instances, responder recipes, HTML report) a profile that is not in the
\* config file ends the script with the profile error and exit status 2
\* before any API call.
C13_ProfileMissingExit2 ==
    /\ SdkProfileMissing
    /\ (rp_pc \notin {"off", "start"} /\ rp_args.profile \notin rp_tenancy.profiles)
          => ReportProfileError

\* C13 (amended): as claimed, except that the HTML report reads the email
\* configuration first: run with --email and an incomplete EMAIL_*
\* environment it never comes to the profile; in every other run of it a
\* missing profile ends in the profile error and exit status 2.
C13_ProfileMissingExit2UnlessEmail ==
    /\ SdkProfileMissing
    /\ (rp_pc \notin {"off", "start"} /\ rp_args.profile \notin rp_tenancy.profiles
          /\ ~EmailUnconfigured)
          => ReportProfileError
    /\ (rp_pc \notin {"off", "start"} /\ rp_args.profile \notin rp_tenancy.profiles
          /\ EmailUnconfigured)
          => rp_error # "profile" /\ rp_exit_code # 2

\* C13 witness: the report run with --email, the six variables set and a
\* profile the config file does not have
C13_Witness ==
    /\ rp_pc = "exited" /\ rp_exit_code = 2
    /\ rp_args.profile = "OTHER" /\ rp_args.email = "ops@example.com"
    /\ rp_email_read = EmailVars

\* ------------------------------------------------------------- claims, HTML report
RpStarted == rp_pc \notin {"off", "start"}

\* the report ended with exit status 3 before the profile was read, before
\* any API call and before any report
ReportEmailError ==
    /\ rp_pc = "exited" /\ rp_error = "email" /\ rp_exit_code = 3
    /\ ~rp_config /\ current_region = "" /\ rp_calls = << >>
    /\ rp_searches = << >> /\ rp_lists = NoLists /\ rp_out = << >>

\* C14 (as claimed): when --email is given and one of the six EMAIL_*
\* variables is unset the report exits with status 3 before the profile is
\* read, before any API call and before any report; when --email is not
\* given the variables are never looked up.
C14_EmailExit3 ==
    /\ (RpStarted /\ rp_args.email # None
          /\ ~(Range(EmailVars) \subseteq rp_tenancy.environ))
          => ReportEmailError
    /\ rp_args.email = None => rp_email_read = << >>

\* C14 (amended): the same for a --email whose value is not empty; an empty
\* value counts as no --email: the variables are not looked up and the run
\* goes on whatever the environment.
C14_EmailExit3NonEmpty ==
    /\ (RpStarted /\ rp_args.email \notin {None, ""}
          /\ ~(Range(EmailVars) \subseteq rp_tenancy.environ))
          => ReportEmailError
    /\ rp_args.email \in {None, ""}
          => rp_email_read = << >> /\ rp_error # "email" /\ rp_exit_code # 3

\* C14 witness: --email with a profile that does not exist and an
\* environment that lacks EMAIL_SMTP_PORT only: exit 3 at the fourth lookup
C14_Witness ==
    /\ ReportEmailError
    /\ rp_args.profile = "OTHER"
    /\ rp_tenancy.environ = Range(EmailVars) \ {"EMAIL_SMTP_PORT"}
    /\ rp_email_read = SubSeq(EmailVars, 1, 4)

\* ------------------------------------------------------------- claims, paging
\* the records collected for a kind hold resource i of a region
Collected(kind, region, i) ==
    \E k \in 1..Len(rp_lists[ListOf(kind)]) :
        rp_lists[ListOf(kind)][k].id = <<kind, region, i>>

\* C15 (as claimed): every listing returns the complete result set: the
\* regions, the compartments, every resource of a searched kind and region
\* (a TERMINATED autonomous VM cluster is found but not kept), every
\* database of a collected DB home, every node of an evaluated DB system.
C15_ListingsComplete ==
    /\ rp_config /\ rp_error = "" =>
          /\ rp_regions = rp_tenancy.regions
          /\ rp_compartments = rp_tenancy.compartments
    /\ \A q \in Range(rp_searches) : \A i \in 1..rp_tenancy.count :
          Resource(q[1], q[2], i).lifecycleState # "TERMINATED"
              => Collected(q[1], q[2], i)
    /\ \A h \in Range(rp_lists.db_homes) : Len(h.databases) = h.id[3]
    /\ \A c \in Range(calls) :
          c.op = "list_db_nodes" /\ ~IsFailed(c) => c.data = dbs.nodes

\* ---- C16 ----

\* positions in the calls of the last step that the service refused
FailedCalls == {i \in 1..Len(calls) : IsFailed(calls[i])}

\* the run of the scheduler was ended by an API error
Aborted == pc = "exited" /\ exit_code = 1 /\ error = "ServiceError"

\* the state part of C16: a refused call is the last thing the script did
\* (nothing follows it in the step, no message for a system whose nodes
\* could not be listed), and the process is gone with a status that is not 0
C16_FailureEndsRun ==
    /\ FailedCalls # {} =>
          /\ FailedCalls = {Len(calls)}
          /\ Aborted
          /\ calls[Len(calls)].op = "list_db_nodes" => out = << >>
    /\ error = "ServiceError" => Aborted

\* C16: when an API call of the scheduler fails (a listing or
\* db_node_action) the script ends there with a status that is not 0: no
\* END SCRIPT, no retry, no later DB system, compartment or region, and the
\* actions issued before are left as they are (no step follows the abort).
C16_AbortOnFailure ==
    /\ []C16_FailureEndsRun
    /\ [][~Aborted]_vars

\* witness: in the second region of a sweep, after listings that went
\* through, a confirmed db_node_action is refused and the run is over
C16_Witness ==
    /\ Aborted
    /\ all_regions /\ ri = 2
    /\ Len(listed) >= 3
    /\ Len(NodeActions) = 1
    /\ IsFailed(NodeActions[1])
    /\ Len(out) = 1

\* ---- C17 ----

\* the report script ended with exit (0)
RpFinished == rp_pc = "exited" /\ rp_exit_code = 0

\* the records collected so far, of every kind
RpRecords == UNION {Range(rp_lists[ListOf(Kinds[k])]) : k \in 1..Len(Kinds)}

\* the kinds that the options of the run select: DB homes, autonomous
\* container databases and autonomous databases only with --databases
SelectedKinds ==
    {Kinds[k] : k \in 1..Len(Kinds)} \
      (IF rp_args.databases THEN {}
       ELSE {"dbhome", "autonomouscontainerdatabase", "autonomousdatabase"})

\* number of searches of a kind through the search endpoint of a region
Searches(kind, region) ==
    Cardinality({i \in 1..Len(rp_searches) : rp_searches[i] = <<kind, region>>})

\* the five endpoints and the calls of the last step are in current_region,
\* and a record carries the region of the endpoint that returned it
RegionsAgree ==
    /\ RpStarted /\ rp_exit_code \notin {2, 3} =>
          \A sv \in Services : endpoints[sv] = current_region
    /\ \A i \in 1..Len(rp_calls) : rp_calls[i].endpoint = current_region
    /\ \A x \in RpRecords : x.region = x.endpoint

\* C17 as stated: the endpoints, the calls and the records agree on the
\* region, and a finished run with -a has searched each of the six kinds
\* exactly once in each subscribed region.
C17_OneRegionAtATime ==
    /\ RegionsAgree
    /\ RpFinished /\ rp_args.all_regions =>
          \A k \in 1..Len(Kinds), r \in Range(rp_regions) :
              Searches(Kinds[k], r) = 1

\* C17 amended: the same, for the kinds that the options select; a kind
\* that is not selected is never searched, and no search is repeated.
C17_OneRegionAtATimeSelected ==
    /\ RegionsAgree
    /\ rp_args.all_regions =>
          \A k \in 1..Len(Kinds), r \in Range(rp_regions) :
              /\ Searches(Kinds[k], r) <= 1
              /\ Kinds[k] \notin SelectedKinds => Searches(Kinds[k], r) = 0
              /\ RpFinished /\ Kinds[k] \in SelectedKinds =>
                    Searches(Kinds[k], r) = 1
    /\ rp_args.all_regions =>
          \A i \in 1..Len(rp_searches) : rp_searches[i][2] \in Range(rp_regions)

\* witness: a finished sweep of two regions with --databases that collected
\* an autonomous database through the endpoint of the second region
C17_Witness ==
    /\ RpFinished
    /\ rp_args.all_regions /\ rp_args.databases
    /\ Len(rp_regions) = 2
    /\ Len(rp_searches) = 12
    /\ \E x \in Range(rp_lists["auto_dbs"]) :
          x.region = rp_regions[2] /\ x.endpoint = rp_regions[2]
    /\ \E x \in Range(rp_lists["exadatainfrastructures"]) :
          x.region = rp_regions[1]

\* ---- C18 ----

\* the node listing of the last iteration returned several nodes
SeveralNodes ==
    /\ Evaluated
    /\ \E c \in Range(calls) : c.op = "list_db_nodes" /\ Len(c.data) >= 2

\* C18: when the node listing returns several nodes, the decision is the
\* one that the state of the first node gives (start iff it is STOPPED at
\* the start hour, else stop iff it is AVAILABLE at the stop hour, else
\* nothing), whatever the states of the other nodes; at most one
\* db_node_action is issued for the DB system, addressed to the first node.
C18_FirstNodeOnly ==
    SeveralNodes =>
        LET first == dbs.nodes[1]
            tv    == TagValues(dbs)
            start == first = "STOPPED" /\ tv.start = current_utc_time
            stop  == ~start /\ first = "AVAILABLE" /\ tv.stop = current_utc_time
        IN
        /\ DecidedStart <=> start
        /\ DecidedStop <=> stop
        /\ DecidedNone <=> ~start /\ ~stop
        /\ Len(NodeActions) <= 1
        /\ \A i \in 1..Len(NodeActions) :
              NodeActions[i].db_node_id = <<dbs.id, 1>>

\* witness: the first node is STOPPED and the second AVAILABLE, both tags
\* name the current hour: the first node is started, the second left alone
C18_Witness ==
    /\ SeveralNodes
    /\ dbs.nodes = <<"STOPPED", "AVAILABLE">>
    /\ TagValues(dbs).start = current_utc_time
    /\ TagValues(dbs).stop = current_utc_time
    /\ DecidedStart
    /\ Len(NodeActions) = 1
    /\ NodeActions[1].action = "START"
    /\ NodeActions[1].db_node_id = <<dbs.id, 1>>

\* ---- C19 ----

\* the two digits of an hour, written without the formatting of the script
TwoDigits(h) ==
    LET digit(n) == CASE n = 0 -> "0" [] n = 1 -> "1" [] n = 2 -> "2"
                      [] n = 3 -> "3" [] n = 4 -> "4" [] n = 5 -> "5"
                      [] n = 6 -> "6" [] n = 7 -> "7" [] n = 8 -> "8"
                      [] n = 9 -> "9"
    IN  digit(h \div 10) \o digit(h % 10)

\* the hour of the wall clock is no longer the hour of the bucket
RolledOver == current_utc_time # "" /\ Bucket(tenancy.clock) # current_utc_time

\* the last iteration read the nodes of a DB system
NodesRead == Evaluated /\ \E c \in Range(calls) : c.op = "list_db_nodes"

\* the bucket has the form HH:00_UTC, and the comparisons of the last
\* iteration were made with it, whatever the wall clock says by now
C19_SameBucket ==
    /\ current_utc_time # "" =>
          \E h \in 0..(HoursPerDay - 1) :
              current_utc_time = TwoDigits(h) \o ":00_UTC"
    /\ NodesRead /\ dbs.nodes # << >> =>
          /\ DecidedStart <=> /\ dbs.nodes[1] = "STOPPED"
                              /\ TagValues(dbs).start = current_utc_time
          /\ DecidedStop <=> /\ dbs.nodes[1] = "AVAILABLE"
                             /\ TagValues(dbs).stop = current_utc_time
                             /\ ~DecidedStart

\* the bucket is assigned by the first step of the script, from the hour of
\* the wall clock at that moment, and by no other step
C19_AssignedOnce ==
    /\ pc = "start" /\ current_utc_time' # current_utc_time =>
          current_utc_time' = TwoDigits(tenancy.clock) \o ":00_UTC"
    /\ pc # "start" => current_utc_time' = current_utc_time

\* C19: the bucket is "HH:00_UTC", HH the two digits of the UTC hour read
\* once when the run starts; no later step changes it, and every DB system
\* of the run is compared with it, also after the hour of the wall clock
\* has changed.
C19_BucketReadOnce ==
    /\ []C19_SameBucket
    /\ [][C19_AssignedOnce]_vars

\* witness: in the second region of a sweep started at 23, after the wall
\* clock has gone to 00, a DB system tagged 23:00_UTC gets its action
C19_Witness ==
    /\ RolledOver
    /\ current_utc_time = "23:00_UTC" /\ tenancy.clock = 0
    /\ all_regions /\ ri = 2
    /\ NodesRead
    /\ DecidedStart \/ DecidedStop
    /\ Len(NodeActions) = 1
    /\ ~IsFailed(NodeActions[1])

\* ---- C20 ----

\* the arguments of the scheduler have been parsed
SchedulerParsed == pc \notin {"off", "start"}

\* a command line that the scheduler must refuse: more than three
\* arguments, a word that is none of the three flags, or -a after the
\* first position
SchedulerRefused ==
    \/ SchedulerBadArgv
    \/ \E i \in 2..Len(argv) : argv[i] = "-a"

\* C20: a refused command line ends in usage with exit status 1 before
\* anything else is done; every other command line is parsed, and then each
\* of all_regions, confirm_stop, confirm_start is true exactly when its
\* flag is among the arguments.
C20_ArgumentParsing ==
    SchedulerParsed =>
        IF SchedulerRefused
        THEN /\ pc = "exited" /\ exit_code = 1 /\ error = "usage"
             /\ current_utc_time = "" /\ listed = << >> /\ calls = << >>
        ELSE /\ error # "usage"
             /\ current_utc_time # ""
             /\ all_regions <=> "-a" \in Range(argv)
             /\ confirm_stop <=> "--confirm_stop" \in Range(argv)
             /\ confirm_start <=> "--confirm_start" \in Range(argv)

\* witness: the three flags together, -a first, reach the sweep with the
\* three variables set
C20_Witness ==
    /\ argv = <<"-a", "--confirm_start", "--confirm_stop">>
    /\ pc = "region"
    /\ all_regions /\ confirm_stop /\ confirm_start

\* ---- C21 ----

\* the requests of the compartment listing among the calls of the last step
CompartmentCalls == SelectSeq(rp_calls, LAMBDA c : c.op = "compartments")

\* the pages of the compartment listing as the service holds them
CompartmentPages == Pages(rp_tenancy.compartments)

\* C21: get_all_compartments returns every page of the listing, in order;
\* the first request carries no page, each further one the opc-next-page
\* token of the answer before it, and there is one request per page; an
\* HTTP error on a page ends the process with no list returned.
C21_AllCompartmentPages ==
    rp_config /\ rp_regions # << >> =>
        /\ \A k \in 1..Len(CompartmentCalls) :
              /\ k <= Len(CompartmentPages)
              /\ CompartmentCalls[k].page = IF k = 1 THEN None ELSE Token(k)
        /\ rp_pc # "exited" \/ rp_exit_code = 0 \/ rp_compartments # << >> =>
              /\ rp_compartments = Concat(CompartmentPages)
              /\ rp_compartments = rp_tenancy.compartments
        /\ rp_pc = "exadatainfrastructure" /\ rp_searches = << >> =>
              /\ Len(CompartmentCalls) = Len(CompartmentPages)
              /\ \A c \in Range(CompartmentCalls) : ~IsFailed(c)
        /\ \A k \in 1..Len(CompartmentCalls) : IsFailed(CompartmentCalls[k]) =>
              /\ k = Len(CompartmentCalls)
              /\ rp_pc = "exited" /\ rp_exit_code = 1
              /\ rp_compartments = << >>

\* witness: three pages were fetched one after the other
C21_Witness ==
    /\ rp_pc = "exadatainfrastructure" /\ rp_searches = << >>
    /\ Len(CompartmentCalls) = 3
    /\ CompartmentCalls[3].page = Token(3)
    /\ Len(rp_compartments) = 3

\* ---- C22 ----

\* the objects listing got as far as the lookup of its compartment argument
OlLookedUp ==
    LET f == OlParseArgs(ol_argv) IN
    /\ ol_pc \notin {"off", "start"}
    /\ ~f.usage /\ f.bound /\ f.profile \in ol_tenancy.profiles

\* the compartments of the listing that the argument names
OlNamed ==
    {c \in Range(ol_tenancy.compartments) :
        OlParseArgs(ol_argv).cpt \in {c.id, c.name}}

\* C22: a compartment argument that is neither the id nor the name of a
\* compartment of the listing ends the objects listing with ERROR 03 and
\* exit status 3 before anything is listed; with any other argument the
\* status is not 3 and every listing starts from a compartment that the
\* argument names.
C22_CompartmentLookup ==
    OlLookedUp =>
        IF OlNamed = {}
        THEN /\ ol_pc = "exited" /\ ol_exit_code = 3 /\ ol_error = "compartment"
             /\ ol_visits = << >> /\ ol_stack = << >> /\ initial_cpt_ocid = ""
        ELSE /\ ol_exit_code # 3 /\ ol_error # "compartment"
             /\ initial_cpt_ocid \in {c.id : c \in OlNamed}
             /\ ol_visits # << >> => ol_visits[1].cpt = initial_cpt_ocid
             /\ \A i \in 1..Len(ol_visits) :
                   i > 1 /\ ol_visits[i].region # ol_visits[i - 1].region
                       => ol_visits[i].cpt = initial_cpt_ocid

\* witness: the compartment is given by its name and its listing is done
C22_Witness ==
    /\ OlLookedUp
    /\ OlParseArgs(ol_argv).cpt = CptName(1)
    /\ initial_cpt_ocid = Ocid(1)
    /\ OlFinished
    /\ Len(ol_visits) >= 2

\* ---- C23 ----

\* the visits of one listing function, in order
OlVisitsOf(fn) == SelectSeq(ol_visits, LAMBDA v : v.fn = fn)

\* the place of a region in the list of the subscribed regions
OlRegionIndex(r) == CHOOSE k \in 1..Len(ol_tenancy.regions) : ol_tenancy.regions[k] = r

\* with -a the objects common to all regions are listed once per visited
\* compartment and before any region-specific listing; the region-specific
\* objects are listed once per subscribed region and visited compartment,
\* and the passes follow the order of the region list
OlPassesInOrder ==
    ol_all_regions /\ ol_pc \notin {"off", "start"} /\ ol_error = "" =>
        LET common == OlVisitsOf("common")
            specific == OlVisitsOf("region")
        IN
        /\ ol_visits = common \o specific
        /\ NoDuplicates([i \in 1..Len(common) |-> common[i].cpt])
        /\ NoDuplicates([i \in 1..Len(specific) |->
                            <<specific[i].region, specific[i].cpt>>])
        /\ \A i \in 1..Len(specific) :
              /\ specific[i].region \in Range(ol_tenancy.regions)
              /\ i > 1 => OlRegionIndex(specific[i - 1].region)
                             <= OlRegionIndex(specific[i].region)
        /\ ol_pc = "sweep" /\ ol_ri > 1 =>
              /\ ol_config_region = ol_tenancy.regions[ol_ri - 1]
              /\ \A r \in Range(ol_tenancy.regions) :
                    OlRegionIndex(r) < ol_ri - 1 =>
                       {v.cpt : v \in {x \in Range(specific) : x.region = r}}
                          = OlExpected
        /\ ol_pc \in {"sweep", "exited"} =>
              {v.cpt : v \in Range(common)} = OlExpected
        /\ OlFinished =>
              {<<v.region, v.cpt>> : v \in Range(specific)}
                 = Range(ol_tenancy.regions) \X OlExpected

\* the uses of clients in the region passes of a -a run
OlPassUses ==
    IF ol_all_regions THEN {u \in Range(ol_uses) : u.fn = "region"} ELSE {}

\* witness: a finished -a -r run of a profile in the second of two regions,
\* over a compartment and its ACTIVE child
C23_Witness ==
    /\ OlFinished /\ ol_all_regions /\ include_sub_cpt
    /\ Len(ol_tenancy.regions) = 2
    /\ ol_tenancy.region = ol_tenancy.regions[2]
    /\ Cardinality(OlExpected) = 2
    /\ Len(OlVisitsOf("common")) = 2
    /\ Len(OlVisitsOf("region")) = 4
    /\ ol_visits[3].region = ol_tenancy.regions[1]
    /\ ol_visits[6].region = ol_tenancy.regions[2]
    /\ \E u \in OlPassUses :
          /\ u.client = "ComputeClient" /\ u.region = ol_tenancy.regions[1]
          /\ u.built = ol_tenancy.regions[1]

\* C23 (as stated): with -a the common objects are listed once per visited
\* compartment and before any region-specific listing, the region-specific
\* objects once per subscribed region and visited compartment, and every
\* client used in the pass over a region was built from a configuration
\* whose region was that region.
C23_AllRegions ==
    /\ OlPassesInOrder
    /\ \A u \in OlPassUses : u.built = u.region

\* C23 (amended): the same order and counts; the service clients of a pass
\* are built from the configuration of the region of the pass, and the
\* IdentityClient that lists the sub-compartments with -r is the one built
\* at startup from the region of the profile.
C23_AllRegionsServiceClients ==
    /\ OlPassesInOrder
    /\ \A u \in OlPassUses :
          IF u.client = "IdentityClient"
          THEN include_sub_cpt /\ u.built = ol_tenancy.region
          ELSE u.built = u.region
    /\ ~include_sub_cpt => \A u \in OlPassUses : u.client # "IdentityClient"

\* ---- C24 ----

\* the calls to the object storage service in the last step
RpStorageCalls == {c \in Range(rp_calls) : c.service = "objectstorage"}

\* the report was printed, then emailed if asked, and then stored through
\* the object storage endpoint of the home region
RpStoredAtHome ==
    /\ rp_out = <<"stdout">>
                \o (IF Truthy(rp_args.email) THEN <<"email">> ELSE << >>)
                \o <<"bucket">>
    /\ current_region = rp_tenancy.home
    /\ rp_calls = <<[service |-> "objectstorage", endpoint |-> rp_tenancy.home,
                     op |-> "namespace"],
                    [service |-> "objectstorage", endpoint |-> rp_tenancy.home,
                     op |-> "put"]>>

\* C24 (as stated): a finished report run that was given --bucket-name has
\* stored the report through the object storage endpoint of the home
\* region, after printing it and after the optional email; nothing is
\* stored before the run is finished.
C24_BucketAtHome ==
    /\ RpFinished /\ rp_args.bucket_name # None => RpStoredAtHome
    /\ ~RpFinished => RpStorageCalls = {} /\ rp_out = << >>

\* C24 (amended): the same for a non-empty --bucket-name; a run without
\* --bucket-name or with an empty one stores nothing.
C24_BucketAtHomeNonEmpty ==
    /\ RpFinished /\ Truthy(rp_args.bucket_name) => RpStoredAtHome
    /\ RpFinished /\ ~Truthy(rp_args.bucket_name) =>
          RpStorageCalls = {} /\ "bucket" \notin Range(rp_out)
    /\ ~RpFinished => RpStorageCalls = {} /\ rp_out = << >>

\* witness: a -a run of a profile of the second region, home in the first,
\* with email, has swept the second region last and stored the report
C24_Witness ==
    /\ RpFinished /\ rp_args.all_regions
    /\ Truthy(rp_args.bucket_name) /\ Truthy(rp_args.email)
    /\ Len(rp_tenancy.regions) = 2
    /\ rp_tenancy.region = rp_tenancy.regions[2]
    /\ rp_tenancy.home = rp_tenancy.regions[1]
    /\ rp_searches # << >>
    /\ rp_searches[Len(rp_searches)][2] = rp_tenancy.regions[2]
    /\ RpStoredAtHome

\* ---- C25 ----

\* the compartment of the last iteration of the compartment loop
IlLastCpt == il_compartments[il_ci - 1]

\* whether the instance carries the tag named on the command line
IlHasTag(instance) ==
    /\ il_args.tag_ns \in DOMAIN instance.defined_tags
    /\ il_args.tag_key \in DOMAIN instance.defined_tags[il_args.tag_ns]

\* the lines printed for one instance in the last iteration
IlLinesOf(instance) == {i \in 1..Len(il_out) : il_out[i].instance = instance.id}

\* C25: each iteration of the compartment loop of the tagged-instances
\* listing prints one line, carrying the value of the tag, for every
\* instance of the compartment that has a value for the given namespace and
\* key, and no line for an instance without it; a DELETED compartment is
\* not listed and prints nothing; an instance without the tag does not end
\* the run, which goes through every compartment once and exits with 0.
C25_TaggedLines ==
    /\ il_pc = "compartment" /\ il_ci > 1 =>
          IF IlLastCpt.lifecycle_state = "DELETED"
          THEN /\ il_out = << >> /\ il_instances = << >>
               /\ <<il_ComputeClient, IlLastCpt.id>> \notin Range(il_listed)
          ELSE /\ il_listed[Len(il_listed)] = <<il_ComputeClient, IlLastCpt.id>>
               /\ \A k \in 1..Len(il_instances) :
                     IF IlHasTag(il_instances[k])
                     THEN /\ Cardinality(IlLinesOf(il_instances[k])) = 1
                          /\ \A i \in IlLinesOf(il_instances[k]) :
                                /\ il_out[i].cpt = IlLastCpt.id
                                /\ il_out[i].tag_value =
                                     il_instances[k].defined_tags[il_args.tag_ns]
                                                                 [il_args.tag_key]
                     ELSE IlLinesOf(il_instances[k]) = {}
               /\ \A i \in 1..Len(il_out) :
                     \E k \in 1..Len(il_instances) :
                        il_out[i].instance = il_instances[k].id
    /\ il_pc = "compartment" => il_error = "" /\ il_exit_code = -1
    /\ il_pc = "exited" /\ il_compartments # << >> =>
          /\ il_exit_code = 0 /\ il_error = ""
          /\ il_ci = Len(il_compartments) + 1
          /\ NoDuplicates(il_listed)

\* witness: a compartment with an instance that lacks the key and one that
\* has it was listed, one line printed, after a DELETED compartment
C25_Witness ==
    /\ il_pc = "compartment" /\ il_ci = 3
    /\ il_compartments[1].lifecycle_state = "DELETED"
    /\ IlLastCpt.lifecycle_state # "DELETED"
    /\ Len(il_instances) = 2 /\ Len(il_out) = 1
    /\ ~IlHasTag(il_instances[1]) /\ IlHasTag(il_instances[2])
    /\ DOMAIN il_instances[1].defined_tags = {"osc"}
    /\ il_out[1].instance = il_instances[2].id
    /\ il_out[1].tag_value = "v2"

\* ---- C26 ----

\* the places of the last step's requests that got an HTTP error status
\* and are followed by response_error
RpFailedGuarded ==
    {i \in 1..Len(rp_calls) : IsFailed(rp_calls[i]) /\ Guarded(rp_calls[i])}

\* C26: in the HTML report, a request followed by response_error that gets
\* an HTTP error status is the last request of the run: the process has
\* exited with status 1, nothing was sent after it, and no report was
\* printed, emailed or stored; a run that printed a report had no such
\* failure.
C26_HttpErrorExits ==
    /\ RpFailedGuarded # {} =>
          /\ RpFailedGuarded = {Len(rp_calls)}
          /\ rp_pc = "exited" /\ rp_exit_code = 1 /\ rp_error = "HTTPError"
          /\ rp_out = << >>
          /\ RpStorageCalls = {}
    /\ rp_error = "HTTPError" =>
          /\ RpFailedGuarded # {}
          /\ rp_pc = "exited" /\ rp_exit_code = 1
    /\ rp_out # << >> => rp_error = "" /\ rp_exit_code = 0

\* witness: with -a, --email and --bucket-name, the search of the second
\* region is answered, the request for the details of a resource fails
C26_Witness ==
    /\ rp_error = "HTTPError" /\ rp_pc = "exited" /\ rp_exit_code = 1
    /\ rp_args.all_regions
    /\ Truthy(rp_args.email) /\ Truthy(rp_args.bucket_name)
    /\ Len(rp_searches) >= 2
    /\ Len(rp_regions) = 2 /\ current_region = rp_regions[2]
    /\ Len(rp_calls) >= 2
    /\ rp_calls[Len(rp_calls)].op = "details"
    /\ IsFailed(rp_calls[Len(rp_calls)])
    /\ rp_out = << >>

\* ---- C27 ----

\* C27 (as claimed): for a DB system whose lifecycle state is TERMINATED
\* the scheduler does not list the DB nodes, issues no start or stop
\* request and prints no message about one.
C27_TerminatedSkipped ==
    dbs # NoDbs /\ dbs.lifecycle_state = "TERMINATED" =>
        /\ calls = << >>
        /\ out = << >>

\* ---- C28 ----

\* both runs are over: the first one, given both confirm flags, sent an
\* action, which completed; the second one ran in the same bucket
RerunInSameBucket ==
    /\ rr_pc = "done"
    /\ ParseArgs(rr_argv).confirm_start /\ ParseArgs(rr_argv).confirm_stop
    /\ rr_runs[1].actions # << >>
    /\ rr_runs[2].now = rr_runs[1].now

\* C28 (as stated): after a first run with both confirm flags has acted on
\* a DB system and the action has completed, a second run in the same
\* bucket sends no action for that DB system.
C28_RerunIdempotent ==
    RerunInSameBucket => rr_runs[2].actions = << >>

\* C28 (amended): the second run sends no action if the two tags of the DB
\* system name different hours; if they name the same hour it sends the
\* opposite of the action of the first run.
C28_RerunIdempotentDistinctTags ==
    RerunInSameBucket =>
        IF TagValues(rr_dbs).stop # TagValues(rr_dbs).start
        THEN rr_runs[2].actions = << >>
        ELSE /\ Len(rr_runs[2].actions) = 1
             /\ rr_runs[2].actions # rr_runs[1].actions

\* witness: a STOPPED node tagged to start at 09 and to stop at 23 was
\* started by the first run at 09 and left alone by the second
C28_Witness ==
    /\ RerunInSameBucket
    /\ rr_runs[1] = [now |-> "09:00_UTC", actions |-> <<"start">>]
    /\ rr_runs[2] = [now |-> "09:00_UTC", actions |-> << >>]
    /\ TagValues(rr_dbs).start = "09:00_UTC"
    /\ TagValues(rr_dbs).stop = "23:00_UTC"
    /\ rr_dbs.nodes[1] = "AVAILABLE"

\* ---- C29 ----

\* the place of the first header line of the profile
CfHeader ==
    CHOOSE i \in 1..Len(cf_lines) :
        /\ cf_lines[i] = Header(cf_profile)
        /\ \A j \in 1..(i - 1) : cf_lines[j] # Header(cf_profile)

\* the places of the lines between that header and the next blank line or
\* the end of the file
CfSection ==
    {i \in (CfHeader + 1)..Len(cf_lines) :
        \A j \in (CfHeader + 1)..i : cf_lines[j] # Blank}

\* the key=value lines among them
CfPairs == {i \in CfSection : Len(cf_lines[i]) = 2}

\* C29 (as claimed): from_file2 on a file that has the header line of the
\* profile returns, and the mapping holds every key=value line between the
\* header and the next blank line or the end of the file, the last line of
\* the file included, and no other key of the file; on a file without the
\* header line the script exits with status 2.
C29_ProfileSection ==
    cf_pc \notin {"off", "start"} =>
        IF Header(cf_profile) \in Range(cf_lines)
        THEN /\ cf_pc = "loaded"
             /\ \A i \in CfPairs :
                   /\ cf_lines[i][1] \in DOMAIN cf_config
                   /\ (\A j \in CfPairs : j > i => cf_lines[j][1] # cf_lines[i][1])
                         => cf_config[cf_lines[i][1]] = cf_lines[i][2]
             /\ \A k \in DOMAIN cf_config :
                   cf_config[k] # "" => \E i \in CfPairs : cf_lines[i] = <<k, cf_config[k]>>
        ELSE cf_pc = "exited" /\ cf_exit_code = 2

\* ---- C30 ----

\* the compartments of the fetched list that have the given id
RcWithId(ocid) == {c \in Range(rc_compartments) : c.id = ocid}

\* the names on the path from the child of the root, or from the compartment
\* whose parent is not in the list, down to the compartment, joined by ":"
RECURSIVE RcPath(_)
RcPath(cpt) ==
    IF cpt.compartment_id = RcRoot \/ RcWithId(cpt.compartment_id) = {}
    THEN cpt.name
    ELSE RcPath(CHOOSE c \in RcWithId(cpt.compartment_id) : TRUE) \o ":" \o cpt.name

\* C30 (as claimed): for the id of every compartment of the fetched list
\* get_cpt_full_name_from_id returns, and what it returns is the names on
\* the path down to the compartment joined by ":", without the name of any
\* compartment that is not on the path, also when a parent is missing from
\* the list; for the id of the root it returns "root".
C30_FullNames ==
    rc_config =>
        /\ get_cpt_full_name_from_id(rc_compartments, RcRoot) = "root"
        /\ \A i \in 1..Len(rc_compartments) :
              get_cpt_full_name_from_id(rc_compartments, rc_compartments[i].id)
                 = RcPath(rc_compartments[i])
        /\ rc_error # "RecursionError"

====
